---- MODULE Spec2Model ----
(***************************************************************************)
(* Model of the form-flow engine of app/forms/models.py: FormFlow,         *)
(* FormPage, the deep completion check, FormPage.serve() and               *)
(* FormFlow.handle_completion().  One request is one atomic step: a fresh  *)
(* FormFlow is built, one operation runs against the session, and the      *)
(* response is recorded.                                                  *)
(***************************************************************************)
EXTENDS Integers, Sequences, FiniteSets, TLC

\* ------------------------------------------------------------------ bounds
\* number of genuine CAPTCHA solutions the user can obtain
NumSolutions == 1

\* how deep the form classes explored nest FormFields
MaxNesting == 2

\* how many pages the require_completion_of() calls of a construction add
MaxRequirements == 2

\* the interpreter's recursion limit, in frames of deep_completion_check
RecursionLimit == 4

\* ------------------------------------------------------------- vocabulary
\* Python's None (a missing key, an unset attribute, "no failing page")
None == "None"

\* request.form "altcha": 0 is the field being absent, -1 a forged payload,
\* 1..NumSolutions payloads that verify_solution accepts
NoPayload == 0
ForgedPayload == -1
GenuinePayloads == 1..NumSolutions
Payloads == {NoPayload, ForgedPayload} \cup GenuinePayloads

\* the stored answer of a page that has none: get_saved_form_data's {}
EmptyData == [k \in {} |-> None]

\* dict.get(key, None)
DictGet(data, key) == IF key \in DOMAIN data THEN data[key] ELSE None

\* ------------------------------------------------------------------ flows
\* FormPage.when_complete: the rules appended by redirect_when_complete, with
\* a destination (a page, or None with a url or a flask_method), a `when`
\* pair (<<>> for None) and a named predicate (None for none)
Rule(page, url, flask_method, when, condition) ==
  [page |-> page, url |-> url, flask_method |-> flask_method,
   when |-> when, condition |-> condition]

\* an entry of result_handlers_config: its type and whether details are set
Handler(type, details) == [type |-> type, details |-> details]

\* A FormFlow as the page-builder API leaves it.  Per page:
\*   form_class   the one field of the page's form class (None: no form)
\*   choices      the valid choices of that field
\*   altcha, requires_completion_of, requires_completion_of_any,
\*   requires_completion_of_any_fallback, requires_responses, when_complete,
\*   clear_pages_on_completion: the attributes of FormPage
\* and result_handlers_config (<<>>: unset or empty, which handle_completion
\* does not tell apart).

\* The repository's pizza / chocolate example: start -> topping -> brand ->
\* address -> final, or start -> chocolate -> address -> final; the final page
\* accepts delivery to "kew" only.
PizzaPages == {"start", "topping", "chocolate", "brand", "address", "final"}

PizzaFlow ==
  [slug |-> "pizza",
   pages |-> PizzaPages,
   starting_page_id |-> "start",
   final_page_id |-> "final",
   form_class |->
     [start |-> "food", topping |-> "topping", chocolate |-> "chocolate_preference",
      brand |-> "brand", address |-> "address_line_1", final |-> None],
   choices |->
     [start |-> {"pizza", "chocolate"}, topping |-> {"pepperoni"},
      chocolate |-> {"dark"}, brand |-> {"dominos"}, address |-> {"kew", "mars"},
      final |-> {}],
   altcha |-> [p \in PizzaPages |-> FALSE],
   requires_completion_of |->
     [p \in PizzaPages |->
        CASE p = "brand" -> <<"start", "topping">>
          [] p = "final" -> <<"address">>
          [] OTHER -> <<>>],
   requires_completion_of_any |->
     [p \in PizzaPages |->
        CASE p = "address" -> <<"topping", "chocolate">>
          [] p = "final" -> <<"brand", "chocolate">>
          [] OTHER -> <<>>],
   requires_completion_of_any_fallback |->
     [p \in PizzaPages |-> IF p = "final" THEN "start" ELSE None],
   requires_responses |->
     [p \in PizzaPages |->
        CASE p = "topping" -> << <<"start", "food", "pizza">> >>
          [] p = "chocolate" -> << <<"start", "food", "chocolate">> >>
          [] p = "final" -> << <<"address", "address_line_1", "kew">> >>
          [] OTHER -> <<>>],
   when_complete |->
     [p \in PizzaPages |->
        CASE p = "start" ->
               << Rule("topping", "", "", <<"food", "pizza">>, None),
                  Rule("chocolate", "", "", <<"food", "chocolate">>, None) >>
          [] p = "topping" -> << Rule("brand", "", "", <<>>, None) >>
          [] p = "chocolate" -> << Rule("address", "", "", <<>>, None) >>
          [] p = "brand" ->
               << Rule(None, "https://www.dominos.co.uk/", "", <<>>, "not_dominos"),
                  Rule("address", "", "", <<>>, None) >>
          [] p = "address" -> << Rule("final", "", "", <<>>, None) >>
          [] OTHER -> <<>>],
   clear_pages_on_completion |->
     [p \in PizzaPages |-> IF p = "start" THEN <<"topping", "chocolate">> ELSE <<>>],
   result_handlers_config |-> << Handler("postgres", TRUE) >>]

\* A flow with a CAPTCHA-gated page: details -> final, where the final page
\* needs the details page complete, and one email handler.
CaptchaPages == {"details", "final"}

CaptchaFlow ==
  [slug |-> "captcha",
   pages |-> CaptchaPages,
   starting_page_id |-> "details",
   final_page_id |-> "final",
   form_class |-> [details |-> "email_address", final |-> None],
   choices |-> [details |-> {"a@b.c"}, final |-> {}],
   altcha |-> [p \in CaptchaPages |-> p = "details"],
   requires_completion_of |-> [p \in CaptchaPages |-> <<>>],
   requires_completion_of_any |->
     [p \in CaptchaPages |-> IF p = "final" THEN <<"details">> ELSE <<>>],
   requires_completion_of_any_fallback |->
     [p \in CaptchaPages |-> IF p = "final" THEN "details" ELSE None],
   requires_responses |-> [p \in CaptchaPages |-> <<>>],
   when_complete |->
     [p \in CaptchaPages |->
        IF p = "details" THEN << Rule("final", "", "", <<>>, None) >> ELSE <<>>],
   clear_pages_on_completion |-> [p \in CaptchaPages |-> <<>>],
   result_handlers_config |-> << Handler("email", TRUE) >>]

\* A one-question flow, question -> final, used with each handler
\* configuration.
SurveyPages == {"question", "final"}

SurveyFlow(config) ==
  [slug |-> "survey",
   pages |-> SurveyPages,
   starting_page_id |-> "question",
   final_page_id |-> "final",
   form_class |-> [question |-> "answer", final |-> None],
   choices |-> [question |-> {"yes"}, final |-> {}],
   altcha |-> [p \in SurveyPages |-> FALSE],
   requires_completion_of |-> [p \in SurveyPages |-> <<>>],
   requires_completion_of_any |->
     [p \in SurveyPages |-> IF p = "final" THEN <<"question">> ELSE <<>>],
   requires_completion_of_any_fallback |-> [p \in SurveyPages |-> None],
   requires_responses |-> [p \in SurveyPages |-> <<>>],
   when_complete |->
     [p \in SurveyPages |->
        IF p = "question"
        THEN << Rule("final", "", "", <<"answer", "yes">>, None) >> ELSE <<>>],
   clear_pages_on_completion |-> [p \in SurveyPages |-> <<>>],
   result_handlers_config |-> config]

\* A flow whose pages differ in their completion rules: choice has a rule
\* that `when` selects, then an unconditional rule, then another `when` rule;
\* extra has conditional rules only, none of which matches "y", the second
\* with both a `when` pair and a predicate; the final page, as
\* create_final_page builds it, has no form.
MenuPages == {"choice", "extra", "final"}

MenuFlow ==
  [slug |-> "menu",
   pages |-> MenuPages,
   starting_page_id |-> "choice",
   final_page_id |-> "final",
   form_class |-> [choice |-> "option", extra |-> "more", final |-> None],
   choices |-> [choice |-> {"a", "b"}, extra |-> {"x", "y", "z"}, final |-> {}],
   altcha |-> [p \in MenuPages |-> FALSE],
   requires_completion_of |->
     [p \in MenuPages |-> IF p = "final" THEN <<"choice">> ELSE <<>>],
   requires_completion_of_any |-> [p \in MenuPages |-> <<>>],
   requires_completion_of_any_fallback |-> [p \in MenuPages |-> None],
   requires_responses |-> [p \in MenuPages |-> <<>>],
   when_complete |->
     [p \in MenuPages |->
        CASE p = "choice" ->
               << Rule("extra", "", "", <<"option", "a">>, None),
                  Rule("final", "", "", <<>>, None),
                  Rule(None, "https://example.com/b", "", <<"option", "b">>, None) >>
          [] p = "extra" ->
               << Rule("final", "", "", <<"more", "x">>, None),
                  Rule(None, "", "forms.start_page", <<"more", "x">>, "more_is_z") >>
          [] OTHER -> <<>>],
   clear_pages_on_completion |-> [p \in MenuPages |-> <<>>],
   result_handlers_config |-> << Handler("email", TRUE) >>]

\* the configurations of finalPage.resultHandlers explored
HandlerConfigs ==
  { <<>>,
    << Handler("email", TRUE), Handler("api", TRUE) >>,
    << Handler("postgres", TRUE), Handler("email", TRUE) >>,
    << Handler("email", TRUE), Handler("sms", TRUE) >>,
    << Handler("api", TRUE), Handler("email", FALSE) >> }

\* A flow with two routes, start -> left -> final when start is answered "a"
\* and start -> right -> final otherwise; every form page ends its rules with
\* an unconditional rule and no page has a CAPTCHA.
BranchPages == {"start", "left", "right", "final"}

BranchFlow(config) ==
  [slug |-> "branch",
   pages |-> BranchPages,
   starting_page_id |-> "start",
   final_page_id |-> "final",
   form_class |-> [start |-> "route", left |-> "l", right |-> "r", final |-> None],
   choices |-> [start |-> {"a", "b", "c"}, left |-> {"x", "y", "z"},
                right |-> {"p", "q", "r"}, final |-> {}],
   altcha |-> [p \in BranchPages |-> FALSE],
   requires_completion_of |->
     [p \in BranchPages |-> IF p \in {"right", "final"} THEN <<"start">> ELSE <<>>],
   requires_completion_of_any |->
     [p \in BranchPages |-> IF p = "final" THEN <<"left", "right">> ELSE <<>>],
   requires_completion_of_any_fallback |->
     [p \in BranchPages |-> IF p = "final" THEN "start" ELSE None],
   requires_responses |->
     [p \in BranchPages |->
        IF p = "left" THEN << <<"start", "route", "a">> >> ELSE <<>>],
   when_complete |->
     [p \in BranchPages |->
        CASE p = "start" -> << Rule("left", "", "", <<"route", "a">>, None),
                               Rule("right", "", "", <<>>, None) >>
          [] p \in {"left", "right"} -> << Rule("final", "", "", <<>>, None) >>
          [] OTHER -> <<>>],
   clear_pages_on_completion |-> [p \in BranchPages |-> <<>>],
   result_handlers_config |-> config]

\* A linear flow start -> notes -> details -> final in which the notes page
\* is on the route but is nobody's prerequisite: final requires details and
\* details requires start.
DetourPages == {"start", "notes", "details", "final"}

DetourFlow(config) ==
  [slug |-> "detour",
   pages |-> DetourPages,
   starting_page_id |-> "start",
   final_page_id |-> "final",
   form_class |-> [start |-> "name", notes |-> "note", details |-> "detail",
                   final |-> None],
   choices |-> [start |-> {"n"}, notes |-> {"m"}, details |-> {"d", "e"},
                final |-> {}],
   altcha |-> [p \in DetourPages |-> FALSE],
   requires_completion_of |->
     [p \in DetourPages |->
        CASE p = "final" -> <<"details">>
          [] p = "details" -> <<"start">>
          [] OTHER -> <<>>],
   requires_completion_of_any |-> [p \in DetourPages |-> <<>>],
   requires_completion_of_any_fallback |-> [p \in DetourPages |-> None],
   requires_responses |-> [p \in DetourPages |-> <<>>],
   when_complete |->
     [p \in DetourPages |->
        CASE p = "start" -> << Rule("notes", "", "", <<>>, None) >>
          [] p = "notes" -> << Rule("details", "", "", <<>>, None) >>
          [] p = "details" -> << Rule("final", "", "", <<>>, None) >>
          [] OTHER -> <<>>],
   clear_pages_on_completion |-> [p \in DetourPages |-> <<>>],
   result_handlers_config |-> config]

\* the configurations of finalPage.resultHandlers whose handlers can all
\* succeed
SucceedingConfigs ==
  { <<>>, << Handler("email", TRUE) >>, << Handler("api", TRUE) >>,
    << Handler("email", TRUE), Handler("api", TRUE) >> }

\* the flows a user is walked through
HappyFlows ==
  {BranchFlow(c) : c \in SucceedingConfigs} \cup {DetourFlow(c) : c \in SucceedingConfigs}

\* the flows explored
Flows == {PizzaFlow, CaptchaFlow, MenuFlow} \cup {SurveyFlow(c) : c \in HandlerConfigs}

\* the predicates passed as `condition`
condition(name, data) ==
  CASE name = "not_dominos" -> DictGet(data, "brand") # "dominos"
    [] name = "more_is_z" -> DictGet(data, "more") = "z"
    [] OTHER -> FALSE

\* ------------------------------------------------------- handler registry
\* handler_classes of handle_completion
handler_classes == {"email", "postgres", "mongodb", "api"}

\* what one run of a handler can do (the environment's choice): the
\* constructor, process() or send() raises, or send() returns a bool
Outcomes == {"init_raises", "process_raises", "send_raises", "send_false", "send_true"}

\* the database handlers are stubs whose send() returns False; the API
\* handler's process() does not raise and its send() catches what it raises
HandlerOutcomes(type) ==
  CASE type \in {"postgres", "mongodb"} -> {"send_false"}
    [] type = "api" -> {"init_raises", "send_false", "send_true"}
    [] OTHER -> Outcomes

\* ---------------------------------------------------------- request, world
\* The request context of one operation: the method, the page being served
\* (None for a call made outside serve(f, )), the value submitted for the
\* page's field and the "altcha" form field.
Request(method, page, value, payload) ==
  [method |-> method, page |-> page, value |-> value, payload |-> payload]

\* The state one operation threads through its calls:
\*   ans      session[page.id], EmptyData when the key is not in the session
\*   alt      session["altcha_<id>"]: "unset", "true" or "false"
\*   results  session["completion_results"], <<>> when not in the session
\*   solved   cache "solved_altchas"
\*   memo     FormFlow.earliest_incomplete_page, "unset" without the attribute
\*   walk     the calls of deep_completion_check of the last walk, in the
\*            order they return: <<page, result, calling page>>
\*   sends    the indexes of the handlers whose send() was invoked
\*   walks    how many times the deep completion walk was started
\*   rules    the indexes of the when_complete rules evaluated, in order

\* FormPage.get_saved_form_data
get_saved_form_data(w, p) == w.ans[p]

\* WTForms validation of the page's form on `data`: the field is a
\* DataRequired choice
validate(f, p, data) == DictGet(data, f.form_class[p]) \in f.choices[p]

\* self.form: set by serve(f, ) for the served page only, when it has a form class
form(f, rq, p) == rq.page = p /\ f.form_class[p] # None

\* self.form.data: the submitted data on a POST, the saved data on a GET
form_data(f, rq, w, p) ==
  IF rq.method = "POST"
  THEN [k \in {f.form_class[p]} |-> rq.value]
  ELSE get_saved_form_data(w, p)

\* the altcha library's verify_solution
verify_solution(payload) == payload \in GenuinePayloads

\* FormPage.altcha_verified
altcha_verified(f, rq, w, p) ==
  IF ~f.altcha[p] THEN [ok |-> TRUE, w |-> w]
  ELSE IF rq.method # "POST" THEN [ok |-> w.alt[p] # "false", w |-> w]
  ELSE IF rq.payload = NoPayload \/ rq.payload \in w.solved
  THEN [ok |-> FALSE, w |-> [w EXCEPT !.alt[p] = "false"]]
  ELSE IF verify_solution(rq.payload)
  THEN [ok |-> TRUE,
        w |-> [w EXCEPT !.alt[p] = "true", !.solved = @ \cup {rq.payload}]]
  ELSE [ok |-> FALSE, w |-> [w EXCEPT !.alt[p] = "false"]]

\* FormPage.is_complete
is_complete(f, rq, w, p, temporary_validation) ==
  IF form(f, rq, p) /\ ~temporary_validation
  THEN IF validate(f, p, form_data(f, rq, w, p))
       THEN altcha_verified(f, rq, w, p)
       ELSE [ok |-> FALSE, w |-> w]
  ELSE IF f.form_class[p] # None
  THEN IF validate(f, p, get_saved_form_data(w, p))
       THEN altcha_verified(f, rq, w, p)
       ELSE [ok |-> FALSE, w |-> w]
  ELSE [ok |-> TRUE, w |-> w]

\* ------------------------------------------------- the deep completion check
\* a call's return: the failing page (None for none) and the state after it
Return(fail, w) == [fail |-> fail, w |-> w]

\* deep_completion_check returning `fail` for `page`, called from `via`
Returned(page, via, fail, w) ==
  Return(fail, [w EXCEPT !.walk = Append(@, <<page, fail, via>>)])

RECURSIVE deep_completion_check(_, _, _, _, _)
RECURSIVE requires_completion_of_loop(_, _, _, _, _)
RECURSIVE any_required_pages_complete(_, _, _, _, _, _)
RECURSIVE any_required_pages_loop(_, _, _, _, _, _, _)
RECURSIVE requires_responses_loop(_, _, _, _, _)

\* for required_page in page.requires_completion_of: first failure returns
requires_completion_of_loop(f, rq, w, page, i) ==
  IF i > Len(f.requires_completion_of[page]) THEN Return(None, w)
  ELSE LET failed_page(r) ==
             IF r.fail # None THEN r
             ELSE requires_completion_of_loop(f, rq, r.w, page, i + 1)
       IN failed_page(deep_completion_check(f, rq, w,
                        f.requires_completion_of[page][i], page))

\* the list of the requires_completion_of_any pages that are shallow-complete
any_required_pages_complete(f, rq, w, page, i, complete) ==
  IF i > Len(f.requires_completion_of_any[page])
  THEN [complete |-> complete, w |-> w]
  ELSE LET append(c) ==
             any_required_pages_complete(f, rq, c.w, page, i + 1,
               IF c.ok THEN Append(complete, f.requires_completion_of_any[page][i])
               ELSE complete)
       IN append(is_complete(f, rq, w, f.requires_completion_of_any[page][i], TRUE))

\* for required_page in any_required_pages_complete: the last failure is kept
any_required_pages_loop(f, rq, w, page, complete, i, failed) ==
  IF i > Len(complete) THEN Return(failed, w)
  ELSE LET failed_page(r) ==
             any_required_pages_loop(f, rq, r.w, page, complete, i + 1,
               IF r.fail # None THEN r.fail ELSE failed)
       IN failed_page(deep_completion_check(f, rq, w, complete[i], page))

\* for required_page, key, response in page.requires_responses
requires_responses_loop(f, rq, w, page, i) ==
  IF i > Len(f.requires_responses[page]) THEN Return(None, w)
  ELSE IF DictGet(get_saved_form_data(w, f.requires_responses[page][i][1]),
                  f.requires_responses[page][i][2]) # f.requires_responses[page][i][3]
  THEN Return(f.requires_responses[page][i][1], w)
  ELSE LET failed_page(r) ==
             IF r.fail # None THEN r
             ELSE requires_responses_loop(f, rq, r.w, page, i + 1)
       IN failed_page(deep_completion_check(f, rq, w,
                        f.requires_responses[page][i][1], page))

\* the same steps with the fallback page left out of the none-complete case
any_and_responses_without_fallback(f, rq, w, page) ==
  LET failed_page_any_required_page(any) ==
        IF any.fail = None THEN Return(None, any.w)
        ELSE requires_responses_loop(f, rq, any.w, page, 1)
      any_complete(shallow) ==
        IF Len(f.requires_completion_of_any[page]) > 0 /\ Len(shallow.complete) = 0
        THEN Return(page, shallow.w)
        ELSE failed_page_any_required_page(
               any_required_pages_loop(f, rq, shallow.w, page, shallow.complete,
                                       1, None))
  IN any_complete(any_required_pages_complete(f, rq, w, page, 1, <<>>))

\* the steps of deep_completion_check after the requires_completion_of loop
any_and_responses(f, rq, w, page) ==
  LET failed_page_any_required_page(any) ==
        IF any.fail = None THEN Return(None, any.w)
        ELSE requires_responses_loop(f, rq, any.w, page, 1)
      any_complete(shallow) ==
        IF Len(f.requires_completion_of_any[page]) > 0 /\ Len(shallow.complete) = 0
        THEN Return(IF f.requires_completion_of_any_fallback[page] # None
                    THEN f.requires_completion_of_any_fallback[page]
                    ELSE page,
                    shallow.w)
        ELSE failed_page_any_required_page(
               any_required_pages_loop(f, rq, shallow.w, page, shallow.complete,
                                       1, None))
  IN any_complete(any_required_pages_complete(f, rq, w, page, 1, <<>>))

\* get_earliest_incomplete_page's inner deep_completion_check(f, page)
deep_completion_check(f, rq, w, page, via) ==
  LET returns(r) == Returned(page, via, r.fail, r.w)
      after_all(all) ==
        IF all.fail # None THEN returns(all)
        ELSE returns(any_and_responses(f, rq, all.w, page))
      after_own(own) ==
        IF ~own.ok THEN Returned(page, via, page, own.w)
        ELSE after_all(requires_completion_of_loop(f, rq, own.w, page, 1))
  IN after_own(IF form(f, rq, page) THEN is_complete(f, rq, w, page, TRUE)
               ELSE [ok |-> TRUE, w |-> w])

\* FormFlow.get_earliest_incomplete_page: only a failing page is memoized
get_earliest_incomplete_page(f, rq, w) ==
  IF w.memo # "unset" THEN Return(w.memo, w)
  ELSE LET failed_page(r) ==
             IF r.fail # None THEN Return(r.fail, [r.w EXCEPT !.memo = r.fail])
             ELSE r
       IN failed_page(deep_completion_check(f, rq, [w EXCEPT !.walk = <<>>, !.walks = @ + 1],
                                            f.final_page_id, None))

\* FormFlow.has_complete_path
has_complete_path(f, rq, w) ==
  LET is_none(r) == [ok |-> r.fail = None, w |-> r.w]
  IN is_none(get_earliest_incomplete_page(f, rq, w))

\* ------------------------------------------------------ completion handling
\* FormFlow.get_completion_results
get_completion_results(w) == w.results

\* FormFlow.is_completion_handled
is_completion_handled(w) ==
  IF Len(get_completion_results(w)) > 0
  THEN \A i \in 1..Len(get_completion_results(w)) :
         get_completion_results(w)[i].success
  ELSE FALSE

\* all(result["success"] for result in results)
all_success(results) == \A i \in 1..Len(results) : results[i].success

\* one entry of the results list
Result(type, success) == [type |-> type, success |-> success]

\* The loop of handle_completion over result_handlers_config.  outcomes[i]
\* is what handler i does in this run.  Returns the results collected, or
\* raised = TRUE when an entry has an unsupported type or no details.
RECURSIVE result_handlers_loop(_, _, _, _, _)
result_handlers_loop(w, config, outcomes, i, results) ==
  IF i > Len(config) THEN [raised |-> FALSE, results |-> results, w |-> w]
  ELSE IF config[i].type \notin handler_classes \/ ~config[i].details
  THEN [raised |-> TRUE, results |-> results, w |-> w]
  ELSE IF outcomes[i] \in {"init_raises", "process_raises"}
  THEN result_handlers_loop(w, config, outcomes, i + 1,
         Append(results, Result(config[i].type, FALSE)))
  ELSE result_handlers_loop([w EXCEPT !.sends = Append(@, i)], config, outcomes,
         i + 1, Append(results, Result(config[i].type, outcomes[i] = "send_true")))

\* FormFlow.handle_completion: ret is "True" or "False", or the exception
\* raised ("Exception": no complete path, "ValueError": a bad handler entry);
\* ran tells whether the loop over the handlers was entered
handle_completion(f, rq, w, outcomes) ==
  LET success(run) ==
        IF run.raised
        THEN [ret |-> "ValueError", ran |-> TRUE, w |-> run.w]
        ELSE [ret |-> IF all_success(run.results) THEN "True" ELSE "False",
              ran |-> TRUE,
              w |-> [run.w EXCEPT !.results = run.results]]
      dispatch(path) ==
        IF ~path.ok THEN [ret |-> "Exception", ran |-> FALSE, w |-> path.w]
        ELSE success(result_handlers_loop(path.w, f.result_handlers_config,
                                          outcomes, 1, <<>>))
  IN IF is_completion_handled(w) THEN [ret |-> "True", ran |-> FALSE, w |-> w]
     ELSE dispatch(has_complete_path(f, rq, w))

\* ------------------------------------------------------------------ serve
\* a response of serve(f, ): kind is "render", "redirect" or "raise"
Response(kind, dest, w) == [kind |-> kind, dest |-> dest, w |-> w]

\* FormPage.save_form_data
save_form_data(w, p, data) == [w EXCEPT !.ans[p] = data]

\* a completion that pops no page
clear_pages_kept(f, w, self) == w

\* for page in self.clear_pages_on_completion: session.pop(page.id)
clear_pages(f, w, self) ==
  [w EXCEPT !.ans = [p \in f.pages |->
     IF \E i \in 1..Len(f.clear_pages_on_completion[self]) :
          f.clear_pages_on_completion[self][i] = p
     THEN EmptyData ELSE @[p]]]

\* whether a when_complete rule matches the submitted data
rule_matches(rule, data) ==
  \/ Len(rule.when) = 0 /\ rule.condition = None
  \/ Len(rule.when) # 0 /\ DictGet(data, rule.when[1]) = rule.when[2]
  \/ rule.condition # None /\ condition(rule.condition, data)

\* the destination a matching rule redirects to (None: the rule names none)
rule_destination(rule) ==
  IF rule.page # None THEN rule.page
  ELSE IF rule.flask_method # "" THEN rule.flask_method
  ELSE IF rule.url # "" THEN rule.url
  ELSE None

\* the loop over self.when_complete going on past a matching rule when a
\* later rule matches as well
RECURSIVE when_complete_loop_last_match(_, _, _, _, _)
when_complete_loop_last_match(f, w, self, data, i) ==
  IF i > Len(f.when_complete[self]) THEN Response("raise", "Exception", w)
  ELSE IF /\ rule_matches(f.when_complete[self][i], data)
          /\ \A j \in (i + 1)..Len(f.when_complete[self]) :
                ~rule_matches(f.when_complete[self][j], data)
  THEN Response("redirect", rule_destination(f.when_complete[self][i]),
                [w EXCEPT !.rules = Append(@, i)])
  ELSE when_complete_loop_last_match(f, [w EXCEPT !.rules = Append(@, i)],
                                     self, data, i + 1)

\* the loop over self.when_complete without the exception after it
RECURSIVE when_complete_loop_without_raise(_, _, _, _, _)
when_complete_loop_without_raise(f, w, self, data, i) ==
  IF i > Len(f.when_complete[self]) THEN Response("render", self, w)
  ELSE IF rule_matches(f.when_complete[self][i], data)
  THEN Response("redirect", rule_destination(f.when_complete[self][i]),
                [w EXCEPT !.rules = Append(@, i)])
  ELSE when_complete_loop_without_raise(f, [w EXCEPT !.rules = Append(@, i)],
                                        self, data, i + 1)

\* for rule in self.when_complete: the redirect of the first matching rule
\* that names a destination; the exception raised after the loop otherwise
RECURSIVE when_complete_loop(_, _, _, _, _)
when_complete_loop(f, w, self, data, i) ==
  IF i > Len(f.when_complete[self]) THEN Response("raise", "Exception", w)
  ELSE IF rule_matches(f.when_complete[self][i], data)
          /\ rule_destination(f.when_complete[self][i]) # None
  THEN Response("redirect", rule_destination(f.when_complete[self][i]),
                [w EXCEPT !.rules = Append(@, i)])
  ELSE when_complete_loop(f, [w EXCEPT !.rules = Append(@, i)], self, data, i + 1)

\* the arguments of render_template that change or memoize state, in order
render_template(f, rq, w, self) ==
  LET earliest_incomplete_page(earliest) == Response("render", self, earliest.w)
      path(complete) ==
        earliest_incomplete_page(get_earliest_incomplete_page(f, rq, complete.w))
      verified(altcha) == path(has_complete_path(f, rq, altcha.w))
  IN verified(altcha_verified(f, rq, w, self))

\* the POST branch of validate_and_redirect once the form data is saved
validate_and_redirect_post(f, rq, w, self, data) ==
  LET completed(complete) ==
        IF complete.ok
        THEN when_complete_loop(f, clear_pages(f, complete.w, self), self, data, 1)
        ELSE render_template(f, rq, complete.w, self)
  IN completed(is_complete(f, rq, w, self, FALSE))

\* validate_and_redirect without its test of is_completion_handled()
validate_and_redirect_unlocked(f, rq, w, self) ==
  IF form(f, rq, self) /\ rq.method = "POST"
  THEN validate_and_redirect_post(f, rq,
         save_form_data(w, self, form_data(f, rq, w, self)), self,
         form_data(f, rq, w, self))
  ELSE render_template(f, rq,
         IF f.altcha[self] /\ w.alt[self] # "unset"
         THEN [w EXCEPT !.alt[self] = "unset"] ELSE w,
         self)

\* FormPage.validate_and_redirect
validate_and_redirect(f, rq, w, self) ==
  IF is_completion_handled(w) /\ self # f.final_page_id
  THEN Response("redirect", f.final_page_id, w)
  ELSE IF form(f, rq, self) /\ rq.method = "POST"
  THEN validate_and_redirect_post(f, rq,
         save_form_data(w, self, form_data(f, rq, w, self)), self,
         form_data(f, rq, w, self))
  ELSE render_template(f, rq,
         IF f.altcha[self] /\ w.alt[self] # "unset"
         THEN [w EXCEPT !.alt[self] = "unset"] ELSE w,
         self)

\* serve() without its loop over self.requires_completion_of
serve_requires_completion_of_skipped(f, rq, w, self, i) == Return(None, w)

\* for page in self.requires_completion_of: the first page that is not complete
RECURSIVE serve_requires_completion_of(_, _, _, _, _)
serve_requires_completion_of(f, rq, w, self, i) ==
  IF i > Len(f.requires_completion_of[self]) THEN Return(None, w)
  ELSE LET complete(c) ==
             IF ~c.ok THEN Return(f.requires_completion_of[self][i], c.w)
             ELSE serve_requires_completion_of(f, rq, c.w, self, i + 1)
       IN complete(is_complete(f, rq, w, f.requires_completion_of[self][i], FALSE))

\* serve() taking the requires_completion_of_any pages as complete
serve_any_complete_skipped(f, rq, w, self, i) == [ok |-> TRUE, w |-> w]

\* for page in self.requires_completion_of_any: break at the first complete page
RECURSIVE serve_any_complete(_, _, _, _, _)
serve_any_complete(f, rq, w, self, i) ==
  IF i > Len(f.requires_completion_of_any[self]) THEN [ok |-> FALSE, w |-> w]
  ELSE LET complete(c) ==
             IF c.ok THEN c
             ELSE serve_any_complete(f, rq, c.w, self, i + 1)
       IN complete(is_complete(f, rq, w, f.requires_completion_of_any[self][i], FALSE))

\* next((p for p in self.requires_completion_of_any if not p.is_complete()),
\*      self.requires_completion_of_any[0])
RECURSIVE serve_first_incomplete(_, _, _, _, _)
serve_first_incomplete(f, rq, w, self, i) ==
  IF i > Len(f.requires_completion_of_any[self])
  THEN Return(f.requires_completion_of_any[self][1], w)
  ELSE LET complete(c) ==
             IF ~c.ok THEN Return(f.requires_completion_of_any[self][i], c.w)
             ELSE serve_first_incomplete(f, rq, c.w, self, i + 1)
       IN complete(is_complete(f, rq, w, f.requires_completion_of_any[self][i], FALSE))

\* serve() without its loop over self.requires_responses
serve_requires_responses_skipped(f, w, self, i) == None

\* for requires_responses in self.requires_responses: the first page whose
\* stored answer does not match
RECURSIVE serve_requires_responses(_, _, _, _)
serve_requires_responses(f, w, self, i) ==
  IF i > Len(f.requires_responses[self]) THEN None
  ELSE IF DictGet(get_saved_form_data(w, f.requires_responses[self][i][1]),
                  f.requires_responses[self][i][2]) # f.requires_responses[self][i][3]
  THEN f.requires_responses[self][i][1]
  ELSE serve_requires_responses(f, w, self, i + 1)

\* the prerequisite checks of a serve() that saved the submission before them
serve_requirements_saved(f, rq, w, self) ==
  LET any_complete(any) ==
        IF ~any.ok
        THEN IF f.requires_completion_of_any_fallback[self] # None
             THEN Return(f.requires_completion_of_any_fallback[self], any.w)
             ELSE serve_first_incomplete(f, rq, any.w, self, 1)
        ELSE Return(serve_requires_responses(f, any.w, self, 1), any.w)
      all_complete(all) ==
        IF all.fail # None THEN all
        ELSE any_complete(IF Len(f.requires_completion_of_any[self]) > 0
                          THEN serve_any_complete(f, rq, all.w, self, 1)
                          ELSE [ok |-> TRUE, w |-> all.w])
  IN all_complete(serve_requires_completion_of(f, rq,
       IF form(f, rq, self) /\ rq.method = "POST"
       THEN save_form_data(w, self, form_data(f, rq, w, self)) ELSE w,
       self, 1))

\* The prerequisite checks of serve(f, ): the page to redirect to, None to go on.
serve_requirements(f, rq, w, self) ==
  LET any_complete(any) ==
        IF ~any.ok
        THEN IF f.requires_completion_of_any_fallback[self] # None
             THEN Return(f.requires_completion_of_any_fallback[self], any.w)
             ELSE serve_first_incomplete(f, rq, any.w, self, 1)
        ELSE Return(serve_requires_responses(f, any.w, self, 1), any.w)
      all_complete(all) ==
        IF all.fail # None THEN all
        ELSE any_complete(IF Len(f.requires_completion_of_any[self]) > 0
                          THEN serve_any_complete(f, rq, all.w, self, 1)
                          ELSE [ok |-> TRUE, w |-> all.w])
  IN all_complete(serve_requires_completion_of(f, rq, w, self, 1))

\* FormPage.serve.  The record returned adds to the response what the call
\* of has_complete_path at the end of the prerequisite checks found (checked,
\* failed, and its walk in w.walk) and what handle_completion did (ret is
\* None when it was not called).
serve(f, rq, w, outcomes) ==
  LET Checked(path, r, ret, ran) ==
        [kind |-> r.kind, dest |-> r.dest,
         w |-> [r.w EXCEPT !.walk = path.w.walk],
         checked |-> TRUE, failed |-> path.fail, ret |-> ret, ran |-> ran]
      handled(path, done) ==
        IF done.ret \in {"Exception", "ValueError"}
        THEN Checked(path, Response("raise", done.ret, done.w), done.ret, done.ran)
        ELSE Checked(path, validate_and_redirect(f, rq, done.w, rq.page),
                     done.ret, done.ran)
      complete_path(path) ==
        IF path.fail # None
        THEN Checked(path, validate_and_redirect(f, rq, path.w, rq.page), None, FALSE)
        ELSE handled(path, handle_completion(f, rq, path.w, outcomes))
      required(req) ==
        IF req.fail # None
        THEN [kind |-> "redirect", dest |-> req.fail,
              w |-> [req.w EXCEPT !.walk = <<>>],
              checked |-> FALSE, failed |-> None, ret |-> None, ran |-> FALSE]
        ELSE complete_path(get_earliest_incomplete_page(f, rq, req.w))
  IN required(serve_requirements(f, rq, w, rq.page))

\* ----------------------------------------------------------- construction
\* what a call gives: the page it returns, or the exception it raises
Page(id) == [kind |-> "page", value |-> id]
Raise(error) == [kind |-> "raise", value |-> error]

\* a page table as the page-builder API leaves it: the keys of self.pages,
\* starting_page_id and final_page_id ("" while unset)
PageTable(pages, starting_page_id, final_page_id) ==
  [pages |-> pages, starting_page_id |-> starting_page_id,
   final_page_id |-> final_page_id]

\* a lookup that answers None for an id it does not know
get_page_by_id_or_none(t, id) ==
  IF id \in t.pages THEN Page(id) ELSE Page(None)

\* FormFlow.get_page_by_id, with get_starting_page and get_final_page, which
\* turn the KeyError of their lookup into a ValueError
RECURSIVE get_page_by_id(_, _)
get_page_by_id(t, id) ==
  LET not_found(r) ==
        IF r.kind = "raise" /\ r.value = "KeyError" THEN Raise("ValueError") ELSE r
  IN IF id \in {"", None} THEN Raise("ValueError")
     ELSE IF id \in t.pages THEN Page(id)
     ELSE IF id = "startingPage"
     THEN IF t.starting_page_id = "" THEN Raise("ValueError")
          ELSE not_found(get_page_by_id(t, t.starting_page_id))
     ELSE IF id = "finalPage"
     THEN IF t.final_page_id = "" THEN Raise("ValueError")
          ELSE not_found(get_page_by_id(t, t.final_page_id))
     ELSE Raise("KeyError")

\* a field of a form class: its validators and, for a FormField, the fields
\* of the form it encloses (<<>> for any other field)
Field(validators, form_field, fields) ==
  [validators |-> validators, form_field |-> form_field, fields |-> fields]

\* any(isinstance(validator, InputRequired) for validator in field.validators)
uses_input_required(field) == "InputRequired" \in field.validators

\* the `form` argument of FormPage: a form class with its fields, or None
FormClass(fields) == [defined |-> TRUE, fields |-> fields]
NoForm == [defined |-> FALSE, fields |-> <<>>]

\* FormPage.__init__ on a form class: the ValueError of the check of the
\* fields and of the sub-fields of each FormField, or the page
FormPage_init(form_class) ==
  IF ~form_class.defined THEN Page("page")
  ELSE IF \E i \in 1..Len(form_class.fields) :
            \/ uses_input_required(form_class.fields[i])
            \/ /\ form_class.fields[i].form_field
               /\ \E j \in 1..Len(form_class.fields[i].fields) :
                    uses_input_required(form_class.fields[i].fields[j])
  THEN Raise("ValueError")
  ELSE Page("page")

\* an entry of a page's redirectWhenComplete: "" for a key that is absent
Redirection(page, url, flaskMethod) ==
  [page |-> page, url |-> url, flaskMethod |-> flaskMethod]

\* the configuration of a page: its id ("" when absent), its
\* redirectWhenComplete entries, the page ids of its requireResponse entries
\* (None when absent), its requireCompletionOf and requireCompletionOfAny
\* lists and its redirectIfNotComplete (None when absent)
PageConfig(id, redirectWhenComplete, requireResponse, requireCompletionOf, requireCompletionOfAny, redirectIfNotComplete) ==
  [id |-> id, redirectWhenComplete |-> redirectWhenComplete,
   requireResponse |-> requireResponse,
   requireCompletionOf |-> requireCompletionOf,
   requireCompletionOfAny |-> requireCompletionOfAny,
   redirectIfNotComplete |-> redirectIfNotComplete]

\* a form's configuration: the file ("missing", "invalid" YAML or "ok"), the
\* keys of the mapping it holds, and its startingPage, pages and finalPage
Config(file, keys, startingPage, pages, finalPage) ==
  [file |-> file, keys |-> keys, startingPage |-> startingPage,
   pages |-> pages, finalPage |-> finalPage]

\* the parameters of FormFlow.__init__
FormFlow_parameters == {"slug", "config_hash", "metadata"}

\* the ids of a sequence of page configurations
RECURSIVE page_ids(_)
page_ids(pages) ==
  IF pages = <<>> THEN {} ELSE {Head(pages).id} \cup page_ids(Tail(pages))

\* the loop over config["pages"]: whether a page has no id or an id that
\* pages_config holds already
RECURSIVE pages_loop_raises(_, _)
pages_loop_raises(pages, pages_config) ==
  IF pages = <<>> THEN FALSE
  ELSE \/ Head(pages).id = ""
       \/ Head(pages).id \in pages_config
       \/ pages_loop_raises(Tail(pages), pages_config \cup {Head(pages).id})

\* the ids a page's configuration makes form_flow_from_config look up with
\* get_page_by_id, in the order of the lookups
lookups(page_config) ==
  [i \in 1..Len(page_config.redirectWhenComplete) |->
     page_config.redirectWhenComplete[i].page]
  \o page_config.requireResponse
  \o page_config.requireCompletionOf
  \o (IF page_config.requireCompletionOfAny = <<>> THEN <<>>
      ELSE page_config.requireCompletionOfAny
           \o <<page_config.redirectIfNotComplete>>)

\* the first lookup of a sequence that raises, or the page of the last
RECURSIVE first_raise(_, _)
first_raise(t, ids) ==
  IF ids = <<>> THEN Page(None)
  ELSE IF get_page_by_id(t, Head(ids)).kind = "raise"
  THEN get_page_by_id(t, Head(ids))
  ELSE first_raise(t, Tail(ids))

\* FormFlow.get_all_pages: list(self.pages.values())
get_all_pages(t) == t.pages

\* a construction that checks nothing and returns the flow
form_flow_from_config_unchecked(config) ==
  Page(PageTable({config.startingPage.id, config.finalPage.id}
                   \cup page_ids(config.pages),
                 config.startingPage.id, config.finalPage.id))

\* form_flow_from_config: the flow's page table, or the exception raised.
\* FormFlow() is called with handle_files, which FormFlow.__init__ does not
\* take; `for page_id, page in form_flow.get_all_pages()` unpacks a FormPage.
form_flow_from_config(config) ==
  LET rules(t) ==
        IF first_raise(t, lookups(config.startingPage)).kind = "raise"
        THEN first_raise(t, lookups(config.startingPage))
        ELSE Page(t)
      created(t) ==
        IF get_all_pages(t) # {} THEN Raise("TypeError") ELSE rules(t)
  IN IF config.keys = {} THEN Raise("ValueError")
     ELSE IF ~({"startingPage", "finalPage"} \subseteq config.keys)
     THEN Raise("ValueError")
     ELSE IF ~({"slug", "handle_files"} \subseteq FormFlow_parameters)
     THEN Raise("TypeError")
     ELSE IF pages_loop_raises(config.pages, {config.startingPage.id})
     THEN Raise("ValueError")
     ELSE created(PageTable({config.startingPage.id, config.finalPage.id}
                              \cup page_ids(config.pages),
                            config.startingPage.id, config.finalPage.id))

\* load_config: the exception for a missing or an invalid file
load_config(config) ==
  IF config.file = "missing" THEN Raise("FileNotFoundError")
  ELSE IF config.file = "invalid" THEN Raise("ValueError")
  ELSE Page(config)

\* the None that get_form_flow returns in place of a flow
NoFlow == [kind |-> "none", value |-> None]

\* get_form_flow: every exception is logged and None returned
get_form_flow(config) ==
  IF load_config(config).kind = "raise" THEN NoFlow
  ELSE IF form_flow_from_config(config).kind = "raise" THEN NoFlow
  ELSE form_flow_from_config(config)

\* the forms routes up to the call of serve(): the status of the error page
\* they render, or 200 when the flow's page is served
route(config) ==
  IF get_form_flow(config).kind = "raise" THEN 500
  ELSE IF get_form_flow(config).kind = "none" THEN 404
  ELSE 200

\* the record of a call: the operation, what it was called on, its argument
\* and what it gave
Call(op, subject, arg, result) ==
  [op |-> op, subject |-> subject, arg |-> arg, result |-> result]

\* ------------------------------------------------------------------- state
VARIABLES
  flow,                \* the FormFlow every request builds from its configuration
  answers,             \* session[page.id] of every page
  altcha_flags,        \* session["altcha_<page.id>"] of every page
  completion_results,  \* session["completion_results"]
  config_hash,         \* session["config_hash"], "unset" when the key is absent
  other_answers,       \* session[id] of a page of another flow of the site
  call,                \* the last call of the construction layer and its result
  requests,            \* the concurrent requests and how far each has got
  solved_altchas,      \* cache "solved_altchas"
  response             \* the last operation and what it answered

vars == <<flow, answers, altcha_flags, completion_results, config_hash,
          other_answers, call, requests, solved_altchas, response>>

\* the state a fresh FormFlow starts an operation with
World ==
  [ans |-> answers, alt |-> altcha_flags, results |-> completion_results,
   solved |-> solved_altchas, memo |-> "unset", walk |-> <<>>, sends |-> <<>>,
   walks |-> 0, rules |-> <<>>]

\* the session and the cache as the operation leaves them
Store(w) ==
  /\ answers' = w.ans
  /\ altcha_flags' = w.alt
  /\ completion_results' = w.results
  /\ solved_altchas' = w.solved

\* what the handlers of a configuration can do in one run
OutcomeChoices(config) ==
  {o \in [1..Len(config) -> Outcomes] :
     \A i \in 1..Len(config) :
       IF config[i].type \in handler_classes
       THEN o[i] \in HandlerOutcomes(config[i].type)
       ELSE o[i] = "init_raises"}

\* the outcomes to explore for an operation: one choice when it does not
\* reach a handler
OutcomesFor(ran, config) ==
  IF ran THEN OutcomeChoices(config)
  ELSE {CHOOSE o \in OutcomeChoices(config) : TRUE}

\* the values a request can submit for the page's field
SubmitValues(f, p) == IF f.form_class[p] = None THEN {""} ELSE f.choices[p] \cup {""}

\* the requests a client can make for page p
Requests(f, p) ==
  {Request("GET", p, "", NoPayload)} \cup
  {Request("POST", p, v, a) :
     v \in SubmitValues(f, p),
     a \in IF f.altcha[p] THEN Payloads ELSE {NoPayload}}

\* the record kept of an operation: the operation, the page and method of the
\* request and the value it submits, the kind of answer ("render",
\* "redirect", "return", "raise") and its destination, what the
\* has_complete_path() call of serve() found
\* (checked, failed, walk), the return of handle_completion (None when it
\* was not called), whether it ran the handlers, the handlers whose
\* send() was invoked, how many deep walks ran, the when_complete rules
\* evaluated, and the pages whose stored answers the operation removed
Record(op, page, method, value, kind, dest, checked, failed, walk, ret, ran, sends, walks, rules, cleared) ==
  [op |-> op, page |-> page, method |-> method, value |-> value, kind |-> kind,
   dest |-> dest, checked |-> checked, failed |-> failed, walk |-> walk,
   ret |-> ret, ran |-> ran, sends |-> sends, walks |-> walks, rules |-> rules,
   cleared |-> cleared]

\* the id of the other flow's page in the session
OtherPage == "other_page"

\* the pages that have stored answers now and none when the flow's answers
\* are `ans` and the other flow's are `other`
Removed(ans, other) ==
  {p \in flow.pages : answers[p] # EmptyData /\ ans[p] = EmptyData} \cup
  {p \in {OtherPage} : other_answers # EmptyData /\ other = EmptyData}

\* two requests of one session, handled at the same time
Concurrent == {"first", "second"}

\* a request inside handle_completion(): pc is "idle" before the call, then
\* "path" past the check of is_completion_handled(), "handlers" past the check
\* of has_complete_path(), "store" past the loop over the handlers, "done"
\* after the return or the raise; sends and results are what its loop has
\* sent and collected; ret is what the call returned or raised
InFlight(pc, sends, results, ret) ==
  [pc |-> pc, sends |-> sends, results |-> results, ret |-> ret]

Init ==
  /\ flow \in Flows
  /\ answers = [p \in flow.pages |-> EmptyData]
  /\ altcha_flags = [p \in flow.pages |-> "unset"]
  /\ completion_results = <<>>
  /\ config_hash = "unset"
  /\ other_answers = EmptyData
  /\ call = Call("none", None, None, None)
  /\ requests = [r \in Concurrent |-> InFlight("idle", <<>>, <<>>, None)]
  /\ solved_altchas = {}
  /\ response = Record("none", None, "GET", "", "none", None, FALSE, None, <<>>,
                       None, FALSE, <<>>, 0, <<>>, {})

\* the session, the cache and the record after serve() answered r
Served(p, rq, r) ==
  /\ Store(r.w)
  /\ response' = Record("serve", p, rq.method, rq.value, r.kind, r.dest, r.checked,
                        r.failed, r.w.walk, r.ret, r.ran, r.w.sends,
                        r.w.walks, r.w.rules, Removed(r.w.ans, other_answers))
  /\ UNCHANGED <<flow, config_hash, other_answers, call, requests>>

\* a request for page p: the route builds the flow and calls p.serve()
Serve(p) ==
  \E rq \in Requests(flow, p) :
    \E outcomes \in OutcomesFor(
         serve(flow, rq, World,
               CHOOSE o \in OutcomeChoices(flow.result_handlers_config) : TRUE).ran,
         flow.result_handlers_config) :
      Served(p, rq, serve(flow, rq, World, outcomes))

\* the session, the cache and the record after handle_completion() answered r
Completed(r) ==
  /\ Store(r.w)
  /\ response' = Record("handle_completion", None, "GET", "",
                        IF r.ret \in {"True", "False"} THEN "return" ELSE "raise",
                        None, FALSE, None, <<>>, r.ret, r.ran, r.w.sends,
                        r.w.walks, r.w.rules, Removed(r.w.ans, other_answers))
  /\ UNCHANGED <<flow, config_hash, other_answers, call, requests>>

\* a direct call of FormFlow.handle_completion() on a fresh flow, in the
\* context of a GET request
HandleCompletion ==
  \E outcomes \in OutcomesFor(
       handle_completion(flow, Request("GET", None, "", NoPayload), World,
         CHOOSE o \in OutcomeChoices(flow.result_handlers_config) : TRUE).ran,
       flow.result_handlers_config) :
    Completed(handle_completion(flow, Request("GET", None, "", NoPayload),
                                World, outcomes))

\* the session as a record: the answers, the CAPTCHA flags, the completion
\* results, the stored fingerprint and the answers of the other flow
Session ==
  [ans |-> answers, alt |-> altcha_flags, results |-> completion_results,
   hash |-> config_hash, other |-> other_answers]

\* a reset that removes the keys of this flow and keeps the rest
reset_this_flow_only(f) ==
  [ans |-> [p \in f.pages |-> EmptyData], alt |-> [p \in f.pages |-> "unset"],
   results |-> <<>>, hash |-> "unset", other |-> other_answers]

\* FormFlow.reset(): session.clear() removes every key of the session
reset(f) ==
  [ans |-> [p \in f.pages |-> EmptyData], alt |-> [p \in f.pages |-> "unset"],
   results |-> <<>>, hash |-> "unset", other |-> EmptyData]

\* session.get("config_hash", "")
stored_config_hash(hash) == IF hash = "unset" THEN "" ELSE hash

\* a constructor that stores the fingerprint and keeps the session
FormFlow_init_keeping_session(f, s, hash) == [s EXCEPT !.hash = hash]

\* FormFlow.__init__ with fingerprint `hash` on session s: the session it
\* leaves
FormFlow_init(f, s, hash) ==
  IF stored_config_hash(s.hash) # hash
  THEN [reset(f) EXCEPT !.hash = hash]
  ELSE s

\* the fingerprints a configuration can have; "" is the constructor's default
ConfigHashes == {"", "v1", "v2"}

\* the session and the record after a construction with fingerprint h left
\* session s: the record keeps h as its value, the fingerprint the session
\* held as its destination, and whether the flow was reset as its kind
Constructed(h, s) ==
  /\ answers' = s.ans
  /\ altcha_flags' = s.alt
  /\ completion_results' = s.results
  /\ config_hash' = s.hash
  /\ other_answers' = s.other
  /\ response' = Record("construct", None, "GET", h,
                        IF stored_config_hash(config_hash) # h THEN "reset" ELSE "none",
                        config_hash, FALSE, None, <<>>, None, FALSE, <<>>, 0, <<>>,
                        Removed(s.ans, s.other))
  /\ UNCHANGED <<flow, solved_altchas, call, requests>>

\* a FormFlow is constructed with fingerprint h
Construct(h) == Constructed(h, FormFlow_init(flow, Session, h))

\* the session and the record after the reset route left session s
Cleared(s) ==
  /\ answers' = s.ans
  /\ altcha_flags' = s.alt
  /\ completion_results' = s.results
  /\ config_hash' = s.hash
  /\ other_answers' = s.other
  /\ response' = Record("reset", None, "GET", "", "redirect", flow.starting_page_id,
                        FALSE, None, <<>>, None, FALSE, <<>>, 0, <<>>,
                        Removed(s.ans, s.other))
  /\ UNCHANGED <<flow, solved_altchas, call, requests>>

\* FormFlow.reset() / the reset route: session.clear()
Reset == Cleared(reset(flow))

Next ==
  \/ \E p \in flow.pages : Serve(p)
  \/ HandleCompletion
  \/ Reset

Spec == Init /\ [][Next]_vars

\* the flow used as a library: any request may construct the FormFlow with a
\* fingerprint of its choice before it is served
FingerprintNext ==
  \/ \E p \in flow.pages : Serve(p)
  \/ HandleCompletion
  \/ Reset
  \/ \E h \in ConfigHashes : Construct(h)

FingerprintSpec == Init /\ [][FingerprintNext]_vars

\* the answers a page of another flow can store
OtherData == [answer |-> "yes"]

\* a request to another flow of the site saves the answers of one of its
\* pages in the same session (FormPage.save_form_data)
OtherFlowSaves ==
  /\ other_answers' = OtherData
  /\ response' = Record("other", None, "POST", "yes", "redirect", None, FALSE,
                        None, <<>>, None, FALSE, <<>>, 0, <<>>, {})
  /\ UNCHANGED <<requests, flow, answers, altcha_flags, completion_results, config_hash,
                 solved_altchas, call>>

\* the flow beside another flow that shares the session
SharedSessionNext ==
  \/ \E p \in flow.pages : Serve(p)
  \/ HandleCompletion
  \/ Reset
  \/ OtherFlowSaves

SharedSessionSpec == Init /\ [][SharedSessionNext]_vars

\* the ids pages are created with and looked up by
PageIds == {"", "a", "startingPage", "finalPage"}
LookupIds == PageIds \cup {"b", None}

\* the page tables explored: create_starting_page and create_final_page
\* store the page before they set the id
PageTables ==
  {t \in [pages : SUBSET PageIds, starting_page_id : PageIds,
          final_page_id : PageIds] :
     /\ t.starting_page_id \in t.pages \cup {""}
     /\ t.final_page_id \in t.pages \cup {""}}

\* a call of get_page_by_id(id) on a flow with page table t, the one call
\* of the behaviour
GetPageById ==
  \E t \in PageTables : \E id \in LookupIds :
    /\ call.op = "none"
    /\ call' = Call("get_page_by_id", t, id, get_page_by_id(t, id))
    /\ UNCHANGED <<requests, flow, answers, altcha_flags, completion_results, config_hash,
                   other_answers, solved_altchas, response>>

\* the validators a field is declared with
ValidatorLists == {{}, {"DataRequired"}, {"InputRequired"}}

\* the fields explored: plain fields, and FormFields that enclose a form of
\* one field, nested up to `depth` times
RECURSIVE Fields(_)
Fields(depth) ==
  {Field(v, FALSE, <<>>) : v \in ValidatorLists} \cup
  (IF depth = 0 THEN {}
   ELSE {Field({}, TRUE, <<f>>) : f \in Fields(depth - 1)})

\* the form classes explored: no form, one field, or two fields
FormClasses ==
  {NoForm} \cup {FormClass(<<f>>) : f \in Fields(MaxNesting)} \cup
  {FormClass(<<f, g>>) : f \in Fields(1), g \in Fields(1)}

\* a FormPage is constructed with a form class, the one call of the behaviour
CreatePage ==
  \E form_class \in FormClasses :
    /\ call.op = "none"
    /\ call' = Call("FormPage", None, form_class, FormPage_init(form_class))
    /\ UNCHANGED <<requests, flow, answers, altcha_flags, completion_results, config_hash,
                   other_answers, solved_altchas, response>>

\* a page configuration with an id and nothing else
Plain(id) == PageConfig(id, <<>>, <<>>, <<>>, <<>>, None)

\* the redirectWhenComplete lists explored: to a page of the flow, to an
\* unknown page, to a url only, to a named route only, to nothing
Redirections ==
  { <<>>, << Redirection("a", "", "") >>, << Redirection("zz", "", "") >>,
    << Redirection("", "https://example.com/", "") >>,
    << Redirection("", "", "forms.start_page") >>,
    << Redirection("", "", "") >> }

\* the lists of page ids explored in the requirements
Requirements == { <<>>, <<"a">>, <<"finalPage">>, <<"zz">> }

\* requireCompletionOfAny with redirectIfNotComplete
AnyRequirements ==
  { <<<<>>, None>>, <<<<"a">>, "start">>, <<<<"a">>, None>>,
    <<<<"a">>, "zz">>, <<<<"zz">>, "start">> }

\* the configurations explored: start -> a -> final with every combination
\* of rules on the starting page; the ids of the pages varied; keys and
\* files missing
Configs ==
  {Config("ok", {"startingPage", "pages", "finalPage"},
          PageConfig("start", r, q, c, any[1], any[2]),
          << Plain("a") >>, Plain("final")) :
     r \in Redirections, q \in Requirements, c \in Requirements,
     any \in AnyRequirements}
  \cup
  {Config("ok", {"startingPage", "pages", "finalPage"}, Plain(start), pages,
          Plain(final)) :
     start \in {"start", ""},
     pages \in { <<>>, << Plain("a") >>, << Plain("a"), Plain("b") >>,
                 << Plain("a"), Plain("a") >>, << Plain("") >>,
                 << Plain("start") >> },
     final \in {"final", "a", "start", ""}}
  \cup
  {Config(file, keys, Plain("start"), << Plain("a") >>, Plain("final")) :
     file \in {"ok", "missing", "invalid"},
     keys \in SUBSET {"startingPage", "pages", "finalPage"}}

\* a request to a page of the form whose configuration is `config`, the one
\* call of the behaviour: the route builds the flow
GetFormFlow ==
  \E config \in Configs :
    /\ call.op = "none"
    /\ call' = Call("route", None, config,
                    [flow |-> IF load_config(config).kind = "raise"
                              THEN load_config(config)
                              ELSE form_flow_from_config(config),
                     status |-> route(config)])
    /\ UNCHANGED <<requests, flow, answers, altcha_flags, completion_results, config_hash,
                   other_answers, solved_altchas, response>>

ConstructionNext ==
  \/ GetPageById
  \/ CreatePage
  \/ GetFormFlow

ConstructionSpec == Init /\ [][ConstructionNext]_vars

\* the loop over the handlers that a request runs once it is past the two
\* checks, looking at is_completion_handled() again first
result_handlers_rechecked(w, config, outcomes) ==
  IF is_completion_handled(w) THEN [raised |-> FALSE, results |-> <<>>, w |-> w]
  ELSE result_handlers_loop(w, config, outcomes, 1, <<>>)

\* the loop over the handlers that a request runs once it is past the two
\* checks: nothing in it reads the session's completion_results
result_handlers(w, config, outcomes) ==
  result_handlers_loop(w, config, outcomes, 1, <<>>)

\* `if self.is_completion_handled(): return True`, read from the session as
\* it is when the request gets there
CheckHandled(r) ==
  /\ requests[r].pc = "idle"
  /\ requests' = [requests EXCEPT ![r] =
       IF is_completion_handled(World) THEN InFlight("done", <<>>, <<>>, "True")
       ELSE InFlight("path", <<>>, <<>>, None)]
  /\ UNCHANGED <<flow, answers, altcha_flags, completion_results, config_hash,
                 other_answers, call, solved_altchas, response>>

\* `if not self.has_complete_path(): raise Exception`
CheckPath(r) ==
  LET checked(path) ==
        /\ Store(path.w)
        /\ requests' = [requests EXCEPT ![r] =
             IF path.ok THEN InFlight("handlers", <<>>, <<>>, None)
             ELSE InFlight("done", <<>>, <<>>, "Exception")]
  IN /\ requests[r].pc = "path"
     /\ checked(has_complete_path(flow, Request("GET", None, "", NoPayload), World))
     /\ UNCHANGED <<flow, config_hash, other_answers, call, response>>

\* the loop over result_handlers_config, each handler doing what `outcomes`
\* says in this run
RunHandlers(r) ==
  LET ran(run) ==
        requests' = [requests EXCEPT ![r] =
          IF run.raised THEN InFlight("done", run.w.sends, run.results, "ValueError")
          ELSE InFlight("store", run.w.sends, run.results, None)]
  IN /\ requests[r].pc = "handlers"
     /\ \E outcomes \in OutcomeChoices(flow.result_handlers_config) :
          ran(result_handlers(World, flow.result_handlers_config, outcomes))
     /\ UNCHANGED <<flow, answers, altcha_flags, completion_results, config_hash,
                    other_answers, call, solved_altchas, response>>

\* session["completion_results"] = results; return success
StoreResults(r) ==
  /\ requests[r].pc = "store"
  /\ completion_results' = requests[r].results
  /\ requests' = [requests EXCEPT ![r] =
       InFlight("done", @.sends, @.results,
                IF all_success(@.results) THEN "True" ELSE "False")]
  /\ UNCHANGED <<flow, answers, altcha_flags, config_hash, other_answers, call,
                 solved_altchas, response>>

\* the answers a session can hold for page p
StoredData(f, p) ==
  {EmptyData} \cup (IF f.form_class[p] = None THEN {}
                    ELSE {[k \in {f.form_class[p]} |-> v] : v \in f.choices[p]})

\* a session in which the flow has a complete path and no completion results
\* yet, as the submissions of its pages leave it; both requests about to call
\* handle_completion()
RaceInit ==
  /\ flow \in Flows
  /\ answers \in [flow.pages -> UNION {StoredData(flow, p) : p \in flow.pages}]
  /\ \A p \in flow.pages : answers[p] \in StoredData(flow, p)
  /\ altcha_flags = [p \in flow.pages |-> IF flow.altcha[p] THEN "true" ELSE "unset"]
  /\ completion_results = <<>>
  /\ config_hash = "unset"
  /\ other_answers = EmptyData
  /\ call = Call("none", None, None, None)
  /\ requests = [r \in Concurrent |-> InFlight("idle", <<>>, <<>>, None)]
  /\ solved_altchas = {}
  /\ response = Record("none", None, "GET", "", "none", None, FALSE, None, <<>>,
                       None, FALSE, <<>>, 0, <<>>, {})
  /\ has_complete_path(flow, Request("GET", None, "", NoPayload), World).ok

RaceNext ==
  \/ \E r \in Concurrent : CheckHandled(r)
  \/ \E r \in Concurrent : CheckPath(r)
  \/ \E r \in Concurrent : RunHandlers(r)
  \/ \E r \in Concurrent : StoreResults(r)

RaceSpec == RaceInit /\ [][RaceNext]_vars

\* the POST requests, of any session, that altcha_verified() handles at the
\* same time
Verifiers == {"first", "second", "third"}

\* a request inside altcha_verified(): pc is "idle" before the call, "read"
\* once cache.get("solved_altchas") has returned `read`, "write" once the
\* payload is verified and the session flag set, "done" after the return;
\* verified is what the call returned
Verifying(pc, payload, read, verified) ==
  [pc |-> pc, payload |-> payload, read |-> read, verified |-> verified]

\* altcha_payload = request.form.get("altcha", ""); without one the call
\* returns False, else solved_altchas = cache.get("solved_altchas", [])
ReadCache(r) ==
  /\ requests[r].pc = "idle"
  /\ requests' = [requests EXCEPT ![r] =
       IF @.payload = NoPayload THEN Verifying("done", @.payload, {}, FALSE)
       ELSE Verifying("read", @.payload, solved_altchas, FALSE)]
  /\ UNCHANGED <<flow, answers, altcha_flags, completion_results, config_hash,
                 other_answers, call, solved_altchas, response>>

\* `if altcha_payload in solved_altchas: return False`, then verify_solution
VerifyPayload(r) ==
  /\ requests[r].pc = "read"
  /\ requests' = [requests EXCEPT ![r] =
       IF @.payload \in @.read THEN Verifying("done", @.payload, @.read, FALSE)
       ELSE IF verify_solution(@.payload)
       THEN Verifying("write", @.payload, @.read, TRUE)
       ELSE Verifying("done", @.payload, @.read, FALSE)]
  /\ UNCHANGED <<flow, answers, altcha_flags, completion_results, config_hash,
                 other_answers, call, solved_altchas, response>>

\* solved_altchas.append(altcha_payload); cache.set("solved_altchas",
\* solved_altchas); return True
WriteCache(r) ==
  /\ requests[r].pc = "write"
  /\ solved_altchas' = requests[r].read \cup {requests[r].payload}
  /\ requests' = [requests EXCEPT ![r] =
       Verifying("done", @.payload, @.read, TRUE)]
  /\ UNCHANGED <<flow, answers, altcha_flags, completion_results, config_hash,
                 other_answers, call, response>>

\* an empty cache and three POST requests to the CAPTCHA page, each with the
\* payload its client sends
ReplayInit ==
  /\ flow = CaptchaFlow
  /\ answers = [p \in flow.pages |-> EmptyData]
  /\ altcha_flags = [p \in flow.pages |-> "unset"]
  /\ completion_results = <<>>
  /\ config_hash = "unset"
  /\ other_answers = EmptyData
  /\ call = Call("none", None, None, None)
  /\ requests \in [Verifiers -> {Verifying("idle", a, {}, FALSE) : a \in Payloads}]
  /\ solved_altchas = {}
  /\ response = Record("none", None, "GET", "", "none", None, FALSE, None, <<>>,
                       None, FALSE, <<>>, 0, <<>>, {})

ReplayNext ==
  \/ \E r \in Verifiers : ReadCache(r)
  \/ \E r \in Verifiers : VerifyPayload(r)
  \/ \E r \in Verifiers : WriteCache(r)

ReplaySpec == ReplayInit /\ [][ReplayNext]_vars

\* the pages of a flow under construction
BuiltPages == {"start", "middle", "final"}

\* the flow after create_page("start"), create_page("middle") and
\* create_final_page("final"), before any builder method is called
BuiltFlow ==
  [slug |-> "built",
   pages |-> BuiltPages,
   starting_page_id |-> "start",
   final_page_id |-> "final",
   form_class |-> [start |-> "name", middle |-> "note", final |-> None],
   choices |-> [start |-> {"n"}, middle |-> {"m"}, final |-> {}],
   altcha |-> [p \in BuiltPages |-> FALSE],
   requires_completion_of |-> [p \in BuiltPages |-> <<>>],
   requires_completion_of_any |-> [p \in BuiltPages |-> <<>>],
   requires_completion_of_any_fallback |-> [p \in BuiltPages |-> None],
   requires_responses |-> [p \in BuiltPages |-> <<>>],
   when_complete |-> [p \in BuiltPages |-> <<>>],
   clear_pages_on_completion |-> [p \in BuiltPages |-> <<>>],
   result_handlers_config |-> <<>>]

\* how many pages the require_completion_of() calls have added so far
RECURSIVE Required(_, _)
Required(f, pages) ==
  IF pages = {} THEN 0
  ELSE LET rest(p) == Len(f.requires_completion_of[p]) + Required(f, pages \ {p})
       IN rest(CHOOSE p \in pages : TRUE)

\* a call of deep_completion_check(page) on the stack: next is 0 before the
\* page's own check, then the index in page.requires_completion_of of the
\* call it makes next
Frame(page, next) == [page |-> page, next |-> next]

\* the walk of get_earliest_incomplete_page(): the request it runs in, the
\* stack of its calls, and "running" or what it gave
Walk(rq, stack, result) == Call("deep_completion_check", rq, stack, result)

\* the sequence without its last element
Front(stack) == SubSeq(stack, 1, Len(stack) - 1)

\* the stack after its innermost call returned None: the caller moves on to
\* the next page of its loop
Resume(stack) ==
  IF Len(stack) = 1 THEN <<>>
  ELSE Append(Front(Front(stack)), Frame(stack[Len(stack) - 1].page,
                                         stack[Len(stack) - 1].next + 1))

\* page.require_completion_of(required): the list is extended, whatever the
\* pages are
RequireCompletionOf(page, required) ==
  /\ call.op = "none"
  /\ Required(flow, flow.pages) < MaxRequirements
  /\ flow' = [flow EXCEPT !.requires_completion_of[page] = Append(@, required)]
  /\ UNCHANGED <<answers, altcha_flags, completion_results, config_hash,
                 other_answers, call, requests, solved_altchas, response>>

\* a GET request for a page of the flow calls get_earliest_incomplete_page():
\* deep_completion_check(self.get_final_page())
GetEarliestIncompletePage(served) ==
  /\ call.op = "none"
  /\ call' = Walk(Request("GET", served, "", NoPayload),
                  << Frame(flow.final_page_id, 0) >>, "running")
  /\ UNCHANGED <<flow, answers, altcha_flags, completion_results, config_hash,
                 other_answers, requests, solved_altchas, response>>

\* `if page.form and not page.is_complete(temporary_validation=True): return
\* page`, and every caller hands the page on
OwnCheck ==
  /\ call.op = "deep_completion_check" /\ call.result = "running"
  /\ call.arg[Len(call.arg)].next = 0
  /\ call' =
       IF /\ form(flow, call.subject, call.arg[Len(call.arg)].page)
          /\ ~is_complete(flow, call.subject, World,
                          call.arg[Len(call.arg)].page, TRUE).ok
       THEN Walk(call.subject, <<>>, call.arg[Len(call.arg)].page)
       ELSE Walk(call.subject,
                 Append(Front(call.arg), Frame(call.arg[Len(call.arg)].page, 1)),
                 "running")
  /\ UNCHANGED <<flow, answers, altcha_flags, completion_results, config_hash,
                 other_answers, requests, solved_altchas, response>>

\* failed_page = deep_completion_check(required_page): one more frame, or
\* RecursionError at the recursion limit
Descend ==
  /\ call.op = "deep_completion_check" /\ call.result = "running"
  /\ call.arg[Len(call.arg)].next \in
       1..Len(flow.requires_completion_of[call.arg[Len(call.arg)].page])
  /\ call' =
       IF Len(call.arg) >= RecursionLimit
       THEN Walk(call.subject, <<>>, "RecursionError")
       ELSE Walk(call.subject,
                 Append(call.arg,
                        Frame(flow.requires_completion_of[call.arg[Len(call.arg)].page]
                                [call.arg[Len(call.arg)].next], 0)),
                 "running")
  /\ UNCHANGED <<flow, answers, altcha_flags, completion_results, config_hash,
                 other_answers, requests, solved_altchas, response>>

\* the loop over page.requires_completion_of is over, no page has
\* requires_completion_of_any: `return failed_page_any_required_page`, None
ReturnNone ==
  /\ call.op = "deep_completion_check" /\ call.result = "running"
  /\ call.arg[Len(call.arg)].next >
       Len(flow.requires_completion_of[call.arg[Len(call.arg)].page])
  /\ call' = Walk(call.subject, Resume(call.arg),
                  IF Len(call.arg) = 1 THEN None ELSE "running")
  /\ UNCHANGED <<flow, answers, altcha_flags, completion_results, config_hash,
                 other_answers, requests, solved_altchas, response>>

\* a flow fresh from create_page and create_final_page, and a session with
\* any answers its pages can have stored
BuilderInit ==
  /\ flow = BuiltFlow
  /\ answers \in [flow.pages -> UNION {StoredData(flow, p) : p \in flow.pages}]
  /\ \A p \in flow.pages : answers[p] \in StoredData(flow, p)
  /\ altcha_flags = [p \in flow.pages |-> "unset"]
  /\ completion_results = <<>>
  /\ config_hash = "unset"
  /\ other_answers = EmptyData
  /\ call = Call("none", None, None, None)
  /\ requests = [r \in Concurrent |-> InFlight("idle", <<>>, <<>>, None)]
  /\ solved_altchas = {}
  /\ response = Record("none", None, "GET", "", "none", None, FALSE, None, <<>>,
                       None, FALSE, <<>>, 0, <<>>, {})

BuilderNext ==
  \/ \E page, required \in flow.pages : RequireCompletionOf(page, required)
  \/ \E served \in flow.pages : GetEarliestIncompletePage(served)
  \/ OwnCheck
  \/ Descend
  \/ ReturnNone

BuilderSpec == BuilderInit /\ [][BuilderNext]_vars

\* a run of the handlers in which every send() returns True
AllSucceed(config) == [i \in 1..Len(config) |-> "send_true"]

\* the page the user has been sent to: the starting page at first, the
\* destination of a redirect, the page that was rendered
SentTo ==
  IF response.op = "none" THEN flow.starting_page_id
  ELSE IF response.kind = "redirect" THEN response.dest
  ELSE response.page

\* an empty session and a flow whose handlers will succeed
HappyInit ==
  /\ flow \in HappyFlows
  /\ answers = [p \in flow.pages |-> EmptyData]
  /\ altcha_flags = [p \in flow.pages |-> "unset"]
  /\ completion_results = <<>>
  /\ config_hash = "unset"
  /\ other_answers = EmptyData
  /\ call = Call("none", None, None, None)
  /\ requests = [r \in Concurrent |-> InFlight("idle", <<>>, <<>>, None)]
  /\ solved_altchas = {}
  /\ response = Record("none", None, "GET", "", "none", None, FALSE, None, <<>>,
                       None, FALSE, <<>>, 0, <<>>, {})

\* the user opens the starting page, or follows the redirect they were
\* answered with
FollowRedirect ==
  /\ response.op = "none" \/ response.kind = "redirect"
  /\ SentTo \in flow.pages
  /\ Served(SentTo, Request("GET", SentTo, "", NoPayload),
            serve(flow, Request("GET", SentTo, "", NoPayload), World,
                  AllSucceed(flow.result_handlers_config)))

\* the user submits a valid answer to the form of the page that was rendered
SubmitValid ==
  /\ response.op = "serve" /\ response.kind = "render"
  /\ flow.form_class[SentTo] # None
  /\ \E v \in flow.choices[SentTo] :
       Served(SentTo, Request("POST", SentTo, v, NoPayload),
              serve(flow, Request("POST", SentTo, v, NoPayload), World,
                    AllSucceed(flow.result_handlers_config)))

HappyNext ==
  \/ FollowRedirect
  \/ SubmitValid

HappySpec == HappyInit /\ [][HappyNext]_vars

\* ------------------------------------------------------------- properties
\* the elements of a sequence
Range(seq) == {seq[i] : i \in 1..Len(seq)}

\* how many times x occurs in a sequence
Count(seq, x) == Cardinality({i \in 1..Len(seq) : seq[i] = x})

\* The final page's dependency chain as the specification describes it: page
\* p is satisfied by the stored answers `ans` when its own answers validate
\* (if it has a form class), every requires_completion_of page is satisfied,
\* some requires_completion_of_any page is (if there are any), and every
\* requires_responses triple matches with its page satisfied.
RECURSIVE ChainSatisfied(_, _, _)
ChainSatisfied(f, ans, p) ==
  /\ f.form_class[p] # None => validate(f, p, ans[p])
  /\ \A q \in Range(f.requires_completion_of[p]) : ChainSatisfied(f, ans, q)
  /\ \/ Len(f.requires_completion_of_any[p]) = 0
     \/ \E q \in Range(f.requires_completion_of_any[p]) : ChainSatisfied(f, ans, q)
  /\ \A t \in Range(f.requires_responses[p]) :
       DictGet(ans[t[1]], t[2]) = t[3] /\ ChainSatisfied(f, ans, t[1])

\* the request context of a direct call of handle_completion()
DirectCall == Request("GET", None, "", NoPayload)

\* C1: whenever serve() makes handle_completion() run the handlers, the
\* final page's dependency chain is satisfied by the stored answers, whatever
\* page is being served.
C1_DispatchOnlyWhenChainSatisfied ==
  [][(response'.op = "serve" /\ response'.ran)
       => ChainSatisfied(flow, answers, flow.final_page_id)]_vars

\* C2: of two successive direct calls of handle_completion() on a flow with a
\* complete path, the first of which ran the handlers, each configured
\* handler's send() is invoked exactly once in total.
C2_AtMostOnceDispatch ==
  [][(/\ response.op = "handle_completion" /\ response.ran
      /\ response'.op = "handle_completion")
       => \A i \in 1..Len(flow.result_handlers_config) :
            Count(response.sends, i) + Count(response'.sends, i) = 1]_vars

\* C3: a call of handle_completion() in a state in which has_complete_path()
\* is false raises, invokes no handler and leaves the completion results
\* unchanged.
C3_NoPathRaises ==
  [][(/\ response'.op = "handle_completion"
      /\ ~has_complete_path(flow, DirectCall, World).ok)
       => /\ response'.kind = "raise"
          /\ ~response'.ran /\ response'.sends = <<>>
          /\ completion_results' = completion_results]_vars

\* C4: when handle_completion() runs the handlers and returns, the value
\* returned is the AND of the recorded success flags, is false when no
\* handler is configured, and agrees with is_completion_handled() evaluated
\* right afterwards.
C4_ReturnAgreesWithHandled ==
  (response.ran /\ response.ret \in {"True", "False"})
    => /\ (response.ret = "True") = all_success(completion_results)
       /\ Len(flow.result_handlers_config) = 0 => response.ret = "False"
       /\ (response.ret = "True") = is_completion_handled(World)

\* C5: when handle_completion() runs the handlers it returns normally
\* whatever fails in one handler (misconfigured entries included), and the
\* persisted results hold one entry per configured handler, in configuration
\* order, every handler that got to send() having been sent.
C5_HandlerIsolation ==
  response.ran
    => /\ response.ret \in {"True", "False"}
       /\ Len(completion_results) = Len(flow.result_handlers_config)
       /\ \A i \in 1..Len(completion_results) :
            completion_results[i].type = flow.result_handlers_config[i].type

\* --------------------------------------- properties of the deep check's walk
\* The step is a serve() that ran the deep completion check; response'.walk
\* then lists its calls, made on the stored answers of the state before.
Walked == response'.op = "serve" /\ response'.checked

\* page p is the page being served and has a form bound to it
Bound(p) == response'.page = p /\ flow.form_class[p] # None

\* the stored answers of p validate against its form
Valid(p) == validate(flow, p, answers[p])

\* the deep check of q called from p returned `fail`
Called(p, q, fail) == <<q, fail, p>> \in Range(response'.walk)

\* the deep check of q called from p returned a failing page
Failed(p, q) == \E x \in flow.pages : Called(p, q, x)

\* step 1 of the deep check of p passes (no CAPTCHA involved)
StepOnePasses(p) == ~Bound(p) \/ (Valid(p) /\ ~flow.altcha[p])

\* step 2 passes: no requires_completion_of page of p failed its deep check
AndSetPasses(p) == \A q \in Range(flow.requires_completion_of[p]) : ~Failed(p, q)

\* q is not shallow-complete whatever the request carries
ShallowIncomplete(q) ==
  /\ flow.form_class[q] # None
  /\ \/ ~Valid(q)
     \/ flow.altcha[q] /\ altcha_flags[q] = "false" /\ response'.method = "GET"

\* the i-th requires_responses triple of p matches the stored answers
Matches(p, i) ==
  DictGet(answers[flow.requires_responses[p][i][1]], flow.requires_responses[p][i][2])
    = flow.requires_responses[p][i][3]

\* C6: every page visited by the deep check that has a form class and whose
\* stored answers do not validate is returned by its check as the failing
\* page.
C6_InvalidPageIsFailingPage ==
  [][Walked =>
       \A e \in Range(response'.walk) :
         (flow.form_class[e[1]] # None /\ ~Valid(e[1])) => e[2] = e[1]]_vars

\* C7: the deep check of a page with requires_completion_of = [A, B, ..] whose
\* A has stored answers that do not validate returns A and does not check B.
C7_AndSetShortCircuit ==
  [][Walked =>
       \A e \in Range(response'.walk) :
         LET P == e[1]
             all == flow.requires_completion_of[P]
         IN (/\ Len(all) >= 2
             /\ StepOnePasses(P)
             /\ flow.form_class[all[1]] # None /\ ~Valid(all[1]))
              => /\ e[2] = all[1]
                 /\ \A x \in flow.pages \cup {None} : ~Called(P, all[2], x)]_vars

\* C8: the deep check of a page P with requires_completion_of_any = [A, B],
\* both deep-checked (so both shallow-complete), where A's check fails and
\* B's passes and the requires_responses of P hold, returns A's failing page.
C8_OrSetKeepsFailure ==
  [][Walked =>
       \A e \in Range(response'.walk) :
         LET P == e[1]
             any == flow.requires_completion_of_any[P]
         IN \A x \in flow.pages :
              (/\ Len(any) = 2
               /\ Called(P, any[1], x) /\ Called(P, any[2], None)
               /\ \A i \in 1..Len(flow.requires_responses[P]) :
                    Matches(P, i) /\ ~Failed(P, flow.requires_responses[P][i][1]))
                => e[2] = x]_vars

\* C9: the deep check of a page P that gets to a non-empty
\* requires_completion_of_any none of whose pages is shallow-complete returns
\* the fallback page of P if it has one, and P otherwise.
C9_OrSetNoneComplete ==
  [][Walked =>
       \A e \in Range(response'.walk) :
         LET P == e[1]
             any == flow.requires_completion_of_any[P]
         IN (/\ Len(any) > 0
             /\ StepOnePasses(P) /\ AndSetPasses(P)
             /\ \A q \in Range(any) : ShallowIncomplete(q))
              => e[2] = IF flow.requires_completion_of_any_fallback[P] # None
                        THEN flow.requires_completion_of_any_fallback[P]
                        ELSE P]_vars

\* C9 witness: a GET was served whose deep check met a page with a fallback
\* none of whose requires_completion_of_any pages has valid stored answers,
\* and returned the fallback.
C9_Witness ==
  /\ response.op = "serve" /\ response.checked /\ response.method = "GET"
  /\ \E e \in Range(response.walk) :
       /\ Len(flow.requires_completion_of_any[e[1]]) > 0
       /\ \A q \in Range(flow.requires_completion_of_any[e[1]]) :
            ~validate(flow, q, answers[q])
       /\ flow.requires_completion_of_any_fallback[e[1]] # None
       /\ e[2] = flow.requires_completion_of_any_fallback[e[1]]
       /\ e[2] # e[1]

\* C10: the deep check of a page P whose steps 1 to 3 return no failure
\* examines the requires_responses of P in order: the page of the first
\* triple that the stored answers do not match is returned.
C10_ResponsesExamined ==
  [][Walked =>
       \A e \in Range(response'.walk) :
         LET P == e[1]
             any == flow.requires_completion_of_any[P]
             resp == flow.requires_responses[P]
         IN \A i \in 1..Len(resp) :
              (/\ StepOnePasses(P) /\ AndSetPasses(P)
               /\ Len(any) = 0 \/ \E q \in Range(any) :
                                    \E x \in flow.pages \cup {None} : Called(P, q, x)
               /\ ~Matches(P, i)
               /\ \A j \in 1..(i - 1) : Matches(P, j) /\ ~Failed(P, resp[j][1]))
                => e[2] = resp[i][1]]_vars

\* ------------------------------------------- properties of serve()'s answer
\* the form data a POST of the step submits for its page
Submitted == [k \in {flow.form_class[response'.page]} |-> response'.value]

\* is_completion_handled() on a stored result list
Handled(results) ==
  Len(results) > 0 /\ \A i \in 1..Len(results) : results[i].success

\* the step is a serve() that got to validate_and_redirect with a POST for a
\* page with a form: the prerequisites passed and handle_completion raised
\* nothing
Posted ==
  /\ response'.op = "serve" /\ response'.method = "POST"
  /\ flow.form_class[response'.page] # None
  /\ response'.checked /\ response'.ret \notin {"Exception", "ValueError"}

\* the POST of the step is valid: its data validates and, on a CAPTCHA-gated
\* page, the CAPTCHA is verified
ValidPost ==
  /\ validate(flow, response'.page, Submitted)
  /\ flow.altcha[response'.page] => altcha_flags'[response'.page] = "true"

\* C11: in one operation, on one FormFlow instance, the deep completion walk
\* is started at most once, whatever it returns.
C11_WalkedAtMostOnce == response.walks <= 1

C13_NoMatchRaises ==
  [][(/\ Posted /\ ValidPost
      /\ \A i \in 1..Len(flow.when_complete[response'.page]) :
           ~rule_matches(flow.when_complete[response'.page][i], Submitted))
       => response'.kind = "raise" /\ response'.dest = "Exception"]_vars

\* C13 amended: a valid POST for a page with a form that matches no
\* when_complete rule makes validate_and_redirect raise, unless completion
\* is handled and the page is not the final page: the submission is then not
\* processed and the answer is a redirect to the final page.
C13_NoMatchRaisesUnlessHandled ==
  [][(/\ Posted /\ ValidPost
      /\ \A i \in 1..Len(flow.when_complete[response'.page]) :
           ~rule_matches(flow.when_complete[response'.page][i], Submitted))
       => IF Handled(completion_results') /\ response'.page # flow.final_page_id
          THEN /\ response'.kind = "redirect"
               /\ response'.dest = flow.final_page_id
               /\ response'.rules = <<>>
               /\ answers' = answers
          ELSE /\ response'.kind = "raise" /\ response'.dest = "Exception"
               /\ response'.rules =
                    [j \in 1..Len(flow.when_complete[response'.page]) |-> j]]_vars

\* C13 witness: a valid POST whose data matched neither of the page's two
\* conditional rules was answered with the exception.
C13_Witness ==
  /\ response.op = "serve" /\ response.method = "POST"
  /\ response.kind = "raise" /\ response.dest = "Exception"
  /\ response.rules = <<1, 2>>
  /\ validate(flow, response.page, answers[response.page])
  /\ \A i \in 1..Len(flow.when_complete[response.page]) :
       /\ ~rule_matches(flow.when_complete[response.page][i], answers[response.page])
       /\ \/ Len(flow.when_complete[response.page][i].when) # 0
          \/ flow.when_complete[response.page][i].condition # None

\* ----------------------------------------- properties of serve()'s gating
\* the step is a request for a page: serve() ran
Serving == response'.op = "serve"

\* q is shallow-complete in the request of the step whatever it carries: it
\* has no form, or its stored answers validate and its CAPTCHA, if it has
\* one, is not marked failed on a GET
ShallowComplete(q) ==
  \/ flow.form_class[q] = None
  \/ /\ Valid(q)
     /\ \/ ~flow.altcha[q]
        \/ altcha_flags[q] # "false" /\ response'.method = "GET"

\* the AND requirement of p passes
AllComplete(p) ==
  \A q \in Range(flow.requires_completion_of[p]) : ShallowComplete(q)

\* the OR requirement of p passes
AnyComplete(p) ==
  \/ Len(flow.requires_completion_of_any[p]) = 0
  \/ \E q \in Range(flow.requires_completion_of_any[p]) : ShallowComplete(q)

\* serve() answered with a redirect to q from its prerequisite checks: the
\* page was neither rendered nor processed
Gated(q) ==
  /\ response'.kind = "redirect" /\ response'.dest = q
  /\ ~response'.checked /\ response'.rules = <<>> /\ response'.sends = <<>>
  /\ answers' = answers /\ completion_results' = completion_results

\* C14: serve(P) goes past its prerequisite checks only if no page of
\* P.requires_completion_of is incomplete; if one is, the answer is a
\* redirect to the first incomplete page of the list.
C14_AndGating ==
  [][Serving =>
       LET all == flow.requires_completion_of[response'.page]
       IN /\ response'.checked => \A q \in Range(all) : ~ShallowIncomplete(q)
          /\ \A i \in 1..Len(all) :
               (/\ ShallowIncomplete(all[i])
                /\ \A j \in 1..(i - 1) : ShallowComplete(all[j]))
                 => Gated(all[i])]_vars

\* C14 witness: a GET of a page whose first required page has valid stored
\* answers and whose second has not was redirected to the second.
C14_Witness ==
  /\ response.op = "serve" /\ response.method = "GET"
  /\ Len(flow.requires_completion_of[response.page]) >= 2
  /\ validate(flow, flow.requires_completion_of[response.page][1],
              answers[flow.requires_completion_of[response.page][1]])
  /\ ~validate(flow, flow.requires_completion_of[response.page][2],
               answers[flow.requires_completion_of[response.page][2]])
  /\ response.kind = "redirect" /\ ~response.checked
  /\ response.dest = flow.requires_completion_of[response.page][2]

\* C15: when the AND requirement of P passes and P.requires_completion_of_any
\* is not empty, a complete page in it lets serve(P) go on to the
\* requires_responses; with none complete the answer is a redirect to the
\* fallback page if P has one, to the first incomplete page of the list
\* otherwise.
C15_OrGating ==
  [][(Serving /\ AllComplete(response'.page)
        /\ Len(flow.requires_completion_of_any[response'.page]) > 0) =>
       LET P == response'.page
           any == flow.requires_completion_of_any[P]
       IN /\ (/\ \E q \in Range(any) : ShallowComplete(q)
              /\ \A i \in 1..Len(flow.requires_responses[P]) : Matches(P, i))
               => response'.checked
          /\ (\A q \in Range(any) : ShallowIncomplete(q))
               => Gated(IF flow.requires_completion_of_any_fallback[P] # None
                        THEN flow.requires_completion_of_any_fallback[P]
                        ELSE any[1])]_vars

\* C15 witness: a GET of a page without a fallback, none of whose two
\* requires_completion_of_any pages has valid stored answers, was redirected
\* to the first of them.
C15_Witness ==
  /\ response.op = "serve" /\ response.method = "GET"
  /\ Len(flow.requires_completion_of_any[response.page]) >= 2
  /\ flow.requires_completion_of_any_fallback[response.page] = None
  /\ \A q \in Range(flow.requires_completion_of_any[response.page]) :
       ~validate(flow, q, answers[q])
  /\ response.kind = "redirect" /\ ~response.checked
  /\ response.dest = flow.requires_completion_of_any[response.page][1]

\* C16: when the AND and OR requirements of P pass, serve(P) goes on only if
\* every (page, key, expected) of P.requires_responses equals the stored
\* answer; the first triple that differs, the key or all answers missing
\* included, gives a redirect to its page, never an exception.
C16_ResponseGating ==
  [][(Serving /\ AllComplete(response'.page) /\ AnyComplete(response'.page)) =>
       LET P == response'.page
           resp == flow.requires_responses[P]
       IN /\ (\A i \in 1..Len(resp) : Matches(P, i)) => response'.checked
          /\ \A i \in 1..Len(resp) :
               (~Matches(P, i) /\ \A j \in 1..(i - 1) : Matches(P, j))
                 => Gated(resp[i][1])]_vars

\* C16 witness: a GET of a page that requires a response another page holds
\* a different value for was redirected to that page.
C16_Witness ==
  /\ response.op = "serve" /\ response.method = "GET"
  /\ Len(flow.requires_responses[response.page]) > 0
  /\ LET t == flow.requires_responses[response.page][1]
     IN /\ t[2] \in DOMAIN answers[t[1]]
        /\ answers[t[1]][t[2]] # t[3]
        /\ validate(flow, t[1], answers[t[1]])
        /\ response.kind = "redirect" /\ response.dest = t[1]
  /\ ~response.checked

\* ------------------------------------- properties of the store and CAPTCHA
\* C17: a request for page P changes P's stored answers only if it is a POST
\* whose submitted data validates.
C17_SavedOnlyWhenValid ==
  [][(Serving /\ answers'[response'.page] # answers[response'.page])
       => /\ response'.method = "POST"
          /\ validate(flow, response'.page, Submitted)]_vars

\* C18: in every request, two calls in a row of is_complete on any page, with
\* and without temporary_validation, return the same and leave the answers,
\* the CAPTCHA flags and the solved-CAPTCHA cache as they were.
C18_ShallowCheckIdempotent ==
  \A page \in flow.pages : \A p \in flow.pages : \A rq \in Requests(flow, page) :
    \A temporary_validation \in BOOLEAN :
      /\ is_complete(flow, rq, World, p, temporary_validation).w = World
      /\ is_complete(flow, rq,
                     is_complete(flow, rq, World, p, temporary_validation).w,
                     p, temporary_validation).ok
           = is_complete(flow, rq, World, p, temporary_validation).ok

\* C19: a POST that finds a CAPTCHA-gated page complete with its bound form
\* (it goes on to the page's when_complete rules) has a verified CAPTCHA, and
\* a CAPTCHA flag that is set is not turned off by a later request other than
\* a reset or a POST to its own page.
C19_CaptchaVerifiedStays ==
  [][/\ (/\ Serving /\ response'.method = "POST"
         /\ flow.altcha[response'.page] /\ response'.rules # <<>>)
          => /\ altcha_flags'[response'.page] = "true"
             /\ solved_altchas' # {}
     /\ \A p \in flow.pages :
          (/\ altcha_flags[p] = "true" /\ response'.op # "reset"
           /\ ~(response'.page = p /\ response'.method = "POST"))
            => altcha_flags'[p] # "false"]_vars

C21_ResetWipesEverything ==
  [][response'.op = "reset"
       => /\ \A p \in flow.pages :
               get_saved_form_data([ans |-> answers'], p) = EmptyData
          /\ other_answers' = EmptyData
          /\ completion_results' = <<>>]_vars

\* C21 witness: a reset removed the stored answers of two pages of the flow
\* while the other flow had answers in the session.
C21_Witness ==
  /\ response.op = "reset"
  /\ OtherPage \in response.cleared
  /\ Cardinality(response.cleared \cap flow.pages) >= 2
  /\ \A p \in flow.pages : answers[p] = EmptyData
  /\ other_answers = EmptyData
  /\ completion_results = <<>>

\* ------------------------------------------------ properties of completion
\* the POST of the step completes its page: it is valid and
\* validate_and_redirect processes it (completion is not handled already, or
\* the page is the final page)
Completes ==
  /\ Posted /\ ValidPost
  /\ ~(Handled(completion_results') /\ response'.page # flow.final_page_id)

\* C22: a POST that completes page P leaves every page of
\* P.clear_pages_on_completion without stored answers, P with the submitted
\* answers and every other page as it was, also when no rule matches; a
\* request that does not complete its page removes no page's stored answers
\* and changes no other page's.
C22_ClearOnCompletion ==
  [][Serving =>
       IF Completes
       THEN \A q \in flow.pages :
              answers'[q] =
                IF q \in Range(flow.clear_pages_on_completion[response'.page])
                THEN EmptyData
                ELSE IF q = response'.page THEN Submitted
                ELSE answers[q]
       ELSE \A q \in flow.pages :
              /\ q # response'.page => answers'[q] = answers[q]
              /\ answers[q] # EmptyData => answers'[q] # EmptyData]_vars

\* C22 witness: a valid POST removed the stored answers of a page its page
\* lists, while an unlisted page kept its answers.
C22_Witness ==
  /\ response.op = "serve" /\ response.method = "POST"
  /\ response.kind = "redirect" /\ response.rules # <<>>
  /\ response.cleared # {}
  /\ response.cleared \subseteq Range(flow.clear_pages_on_completion[response.page])
  /\ \E q \in flow.pages :
       /\ q # response.page
       /\ q \notin Range(flow.clear_pages_on_completion[response.page])
       /\ answers[q] # EmptyData

\* the last operation was a valid POST that a when_complete rule of its page
\* answered with a redirect to page q
RedirectedTo(q) ==
  /\ response.op = "serve" /\ response.method = "POST"
  /\ response.kind = "redirect" /\ response.rules # <<>>
  /\ response.dest = q

\* C23: in the pizza flow, with {food: "pizza"} stored for start, a POST of
\* {topping: "pepperoni"} to topping is answered with a redirect to brand, and
\* the GET of brand that follows renders brand.  In every flow, when a valid
\* POST of P was redirected by a rule to a page Q whose only prerequisite is
\* the completion of P (P is the one page Q requires, or the one page of its
\* OR set), the GET of Q that follows renders Q.
C23_EndToEndStep ==
  [][/\ (/\ Serving /\ flow = PizzaFlow
         /\ response'.page = "topping" /\ response'.method = "POST"
         /\ response'.value = "pepperoni"
         /\ answers["start"] = [food |-> "pizza"])
          => response'.kind = "redirect" /\ response'.dest = "brand"
     /\ (/\ Serving /\ flow = PizzaFlow
         /\ response'.page = "brand" /\ response'.method = "GET"
         /\ response.page = "topping" /\ RedirectedTo("brand"))
          => response'.kind = "render" /\ response'.dest = "brand"
     /\ (/\ Serving /\ response'.method = "GET"
         /\ RedirectedTo(response'.page)
         /\ \/ /\ flow.requires_completion_of[response'.page] = <<response.page>>
               /\ flow.requires_completion_of_any[response'.page] = <<>>
            \/ /\ flow.requires_completion_of[response'.page] = <<>>
               /\ flow.requires_completion_of_any[response'.page] = <<response.page>>
         /\ flow.requires_responses[response'.page] = <<>>)
          => response'.kind = "render" /\ response'.dest = response'.page]_vars

\* C29: a when_complete rule that has both a `when` pair and a predicate
\* gives the redirect of a POST exactly when its `when` key has its value in
\* the submitted answers, whatever the predicate says.
C29_WhenTakesPriority ==
  [][(Serving /\ response'.rules # <<>>) =>
       \A i \in Range(response'.rules) :
         (/\ Len(flow.when_complete[response'.page][i].when) # 0
          /\ flow.when_complete[response'.page][i].condition # None)
           => ((/\ response'.kind = "redirect"
                /\ i = response'.rules[Len(response'.rules)])
               <=> DictGet(Submitted,
                           flow.when_complete[response'.page][i].when[1])
                     = flow.when_complete[response'.page][i].when[2])]_vars

\* ---------------------------------------- properties of the construction
\* C24: get_page_by_id(id) gives the page stored under a non-empty id that is
\* a key of the pages; for "startingPage" and "finalPage", when no page has
\* that id, the starting and the final page the flow has; and for every other
\* id, the empty one included, it raises and gives neither a page nor None.
C24_GetPageById ==
  call.op = "get_page_by_id" =>
    IF call.arg \in {"", None} THEN call.result.kind = "raise"
    ELSE IF call.arg \in call.subject.pages THEN call.result = Page(call.arg)
    ELSE IF call.arg = "startingPage" /\ call.subject.starting_page_id # ""
    THEN call.result = Page(call.subject.starting_page_id)
    ELSE IF call.arg = "finalPage" /\ call.subject.final_page_id # ""
    THEN call.result = Page(call.subject.final_page_id)
    ELSE call.result.kind = "raise"

\* C24 witness: "finalPage" was looked up in a flow that has no page of that
\* id and gave the final page, "a".
C24_Witness ==
  /\ call.op = "get_page_by_id" /\ call.arg = "finalPage"
  /\ "finalPage" \notin call.subject.pages
  /\ call.subject.final_page_id = "a"
  /\ call.result = Page("a")

\* the field, or a field of a form nested in it at any depth, declares the
\* InputRequired validator
RECURSIVE DeclaresInputRequired(_)
DeclaresInputRequired(field) ==
  \/ "InputRequired" \in field.validators
  \/ \E j \in 1..Len(field.fields) : DeclaresInputRequired(field.fields[j])

\* C27: constructing a FormPage raises exactly when its form class declares
\* InputRequired on a field, at the top level or in a nested form; a page
\* without a form and a form class without that validator are accepted.
C27_InputRequiredRejected ==
  call.op = "FormPage" =>
    IF ~call.arg.defined THEN call.result.kind = "page"
    ELSE (call.result.kind = "raise"
            <=> \E i \in 1..Len(call.arg.fields) :
                  DeclaresInputRequired(call.arg.fields[i]))

\* the configuration of a request that built its flow from a loaded mapping
\* holding its startingPage and its finalPage
Built ==
  /\ call.op = "route"
  /\ call.arg.file = "ok"
  /\ {"startingPage", "finalPage"} \subseteq call.arg.keys

\* the ids of startingPage, pages[] and finalPage, in that order
DeclaredIds(config) ==
  <<config.startingPage.id>>
  \o [i \in 1..Len(config.pages) |-> config.pages[i].id]
  \o <<config.finalPage.id>>

\* two pages share an id, or a page has none
ClashingIds(config) ==
  \/ \E i \in 1..Len(DeclaredIds(config)) : DeclaredIds(config)[i] = ""
  \/ \E i, j \in 1..Len(DeclaredIds(config)) :
       i # j /\ DeclaredIds(config)[i] = DeclaredIds(config)[j]

\* the page ids the rules of the starting page name
NamedIds(config) ==
  {lookups(config.startingPage)[i] : i \in 1..Len(lookups(config.startingPage))}
    \ {"", None}

\* a rule names a page id that no page of the configuration has
UndefinedReference(config) ==
  \E id \in NamedIds(config) :
    id \notin {DeclaredIds(config)[i] : i \in 1..Len(DeclaredIds(config))}
                \cup {"startingPage", "finalPage"}

LooseRule(config) ==
  \/ \E i \in 1..Len(config.startingPage.redirectWhenComplete) :
       /\ config.startingPage.redirectWhenComplete[i].page = ""
       /\ \/ config.startingPage.redirectWhenComplete[i].url # ""
          \/ config.startingPage.redirectWhenComplete[i].flaskMethod # ""
  \/ /\ config.startingPage.requireCompletionOfAny # <<>>
     /\ config.startingPage.redirectIfNotComplete = None

\* C26: rule references are refused at construction for unknown page ids
\* only: a configuration with a URL-only or route-only redirectWhenComplete
\* rule, or a requireCompletionOfAny list without redirectIfNotComplete,
\* whose pages have distinct ids and whose rules name defined pages only, is
\* accepted and its flow returned.
C26_OnlyUnknownIdsRejected ==
  /\ Built
  /\ LooseRule(call.arg)
  /\ ~ClashingIds(call.arg)
  /\ ~UndefinedReference(call.arg)
  => call.result.flow.kind = "page"

\* C30: a configuration that cannot be loaded, or from which no flow can be
\* built, is answered with HTTP 500: never with 404, never with a form.
C30_ConfigurationErrorIs500 ==
  call.op = "route" /\ call.result.flow.kind = "raise"
    => call.result.status = 500

\* ------------------------------------------- properties of concurrent requests
\* C28: handle_completion() looks at is_completion_handled() once, on entry:
\* a request that is past the check collects a result from every handler, a
\* successful one from a send() of its own, even when another request of the
\* session has stored successful results since; so a handler's send() is
\* invoked twice for one completed flow when both requests pass the check
\* before either stores.
C28_CompletionRace ==
  [][\A r \in Concurrent :
       /\ requests[r].pc = "handlers"
       /\ requests'[r].pc = "store"
       /\ Handled(completion_results)
       => /\ Len(requests'[r].results) = Len(flow.result_handlers_config)
          /\ \A i \in 1..Len(requests'[r].results) :
               requests'[r].results[i].success
                 => i \in Range(requests'[r].sends)]_vars

\* both requests have returned True, each after its own successful send() of
\* the same handler, for one completed flow
C28_Witness ==
  /\ \A r \in Concurrent :
       /\ requests[r].pc = "done"
       /\ requests[r].ret = "True"
       /\ requests[r].sends # <<>>
       /\ requests[r].sends = requests["first"].sends
  /\ Handled(completion_results)

\* ------------------------------------------ properties of the completed flow
\* C31: once is_completion_handled() is true, a serve() request, GET or POST,
\* to any page of the flow changes no page's stored answers and not the
\* completion results, and invokes no handler; a POST to a page other than
\* the final page is answered with a redirect.
C31_PostCompletionLock ==
  [][(Serving /\ Handled(completion_results))
       => /\ answers' = answers
          /\ completion_results' = completion_results
          /\ response'.sends = <<>> /\ ~response'.ran
          /\ (response'.method = "POST" /\ response'.page # flow.final_page_id)
               => response'.kind = "redirect"]_vars

\* with completion handled, a valid POST to a page other than the final page,
\* with another answer than the stored one, was redirected to the final page
\* and not saved
C31_Witness ==
  /\ response.op = "serve" /\ response.method = "POST"
  /\ response.page # flow.final_page_id
  /\ Handled(completion_results) /\ ~response.ran
  /\ response.kind = "redirect" /\ response.dest = flow.final_page_id
  /\ response.value \in flow.choices[response.page]
  /\ DictGet(answers[response.page], flow.form_class[response.page])
       \notin {response.value, None}

\* C32: the handlers are dispatched only while the final page is served: a
\* request for another page, GET or POST, invokes no handler's send() and
\* writes no completion results.
C32_DispatchOnFinalPageOnly ==
  [][(Serving /\ response'.page # flow.final_page_id)
       => /\ response'.sends = <<>> /\ ~response'.ran
          /\ completion_results' = completion_results]_vars

\* the prerequisites of page p are satisfied by the stored answers `ans`, each
\* with its own chain
PrerequisitesSatisfied(f, ans, p) ==
  /\ \A q \in Range(f.requires_completion_of[p]) : ChainSatisfied(f, ans, q)
  /\ \/ Len(f.requires_completion_of_any[p]) = 0
     \/ \E q \in Range(f.requires_completion_of_any[p]) : ChainSatisfied(f, ans, q)
  /\ \A t \in Range(f.requires_responses[p]) :
       DictGet(ans[t[1]], t[2]) = t[3] /\ ChainSatisfied(f, ans, t[1])

\* a page of p.requires_completion_of has valid stored answers while its own
\* prerequisites do not hold
StalePrerequisite(p) ==
  \E q \in Range(flow.requires_completion_of[p]) :
    /\ validate(flow, q, answers[q])
    /\ ~PrerequisitesSatisfied(flow, answers, q)

\* C33: serve(P) redirects, and neither renders P nor takes its submission,
\* when a page Q of P.requires_completion_of has valid stored answers but
\* Q's own prerequisites no longer hold.
C33_DeepGating ==
  [][(Serving /\ StalePrerequisite(response'.page))
       => response'.kind = "redirect" /\ ~response'.checked]_vars

\* ------------------------------------------------ properties of the happy path
\* the user has nothing left to do: no redirect to follow into the flow and
\* no form to submit
Stopped ==
  /\ ~(/\ response.op = "none" \/ response.kind = "redirect"
       /\ SentTo \in flow.pages)
  /\ ~(/\ response.op = "serve" /\ response.kind = "render"
       /\ flow.form_class[SentTo] # None)

\* the final page has been rendered with is_completion_handled() true
Arrived ==
  /\ response.op = "serve" /\ response.kind = "render"
  /\ response.page = flow.final_page_id
  /\ Handled(completion_results)

\* the operation leaves the session and the cache as they are
Untouched(w) ==
  /\ w.ans = answers /\ w.alt = altcha_flags
  /\ w.results = completion_results /\ w.solved = solved_altchas

\* the user has been redirected to a page that redirects them to a page that
\* redirects them back, nothing changing in the session: following the
\* redirects goes on for ever
Bounced ==
  LET back(there, r) ==
        /\ r.kind = "redirect" /\ r.dest = SentTo /\ Untouched(r.w)
      forth(r) ==
        /\ r.kind = "redirect" /\ r.dest \in flow.pages /\ Untouched(r.w)
        /\ back(r.dest, serve(flow, Request("GET", r.dest, "", NoPayload), World,
                              AllSucceed(flow.result_handlers_config)))
  IN /\ response.op = "serve" /\ response.kind = "redirect"
     /\ SentTo \in flow.pages
     /\ forth(serve(flow, Request("GET", SentTo, "", NoPayload), World,
                    AllSucceed(flow.result_handlers_config)))

\* C34: in a flow without CAPTCHA pages whose form pages each end their
\* when_complete list with an unconditional rule and whose handlers all
\* succeed, a user who starts from an empty session, submits valid answers to
\* every page they are sent to and follows every redirect eventually has the
\* final page rendered with is_completion_handled() true: they are never
\* answered with an exception, never sent back and forth between two pages
\* for ever, and have nothing left to do only once they have arrived.
C34_HappyPath ==
  /\ response.kind # "raise"
  /\ ~Bounced
  /\ Stopped => Arrived

\* ------------------------------------------------- properties of the memo
\* the earliest_incomplete_page that a serve() answered by r hands to the
\* renderer: the memoized page, None when nothing is memoized (and
\* has_complete_path is true)
Rendered(r) == IF r.w.memo = "unset" THEN None ELSE r.w.memo

\* what a deep check that starts afresh on the store as serve() leaves it
\* returns
Fresh(rq, r) ==
  get_earliest_incomplete_page(flow, rq, [r.w EXCEPT !.memo = "unset"]).fail

\* the requests for a page of the flow that serve() answers by rendering it,
\* the handlers doing as `outcomes` says
Renders(rq, outcomes) == serve(flow, rq, World, outcomes).kind = "render"

\* C35: in every serve() call that renders, the earliest_incomplete_page
\* (and with it the has_complete_path) handed to the renderer is what a fresh
\* deep check over the store as it stands at render time returns.
C35_NoStaleMemo ==
  \A p \in flow.pages : \A rq \in Requests(flow, p) :
    \A outcomes \in OutcomeChoices(flow.result_handlers_config) :
      Renders(rq, outcomes)
        => Rendered(serve(flow, rq, World, outcomes))
             = Fresh(rq, serve(flow, rq, World, outcomes))

\* ------------------------------------------------ properties of the dispatch
\* C36: after every run of handle_completion(), in serve() or called
\* directly, each handler whose send() was invoked has its outcome in the
\* stored completion results, also when the run raises on a later handler.
C36_DispatchIsRecorded ==
  [][\A i \in Range(response'.sends) :
       /\ i <= Len(completion_results')
       /\ completion_results'[i].type = flow.result_handlers_config[i].type]_vars

\* ------------------------------------------------- properties of the CAPTCHA
\* C37: a CAPTCHA payload is verified at most once over all requests and
\* sessions, also when POST requests carrying it are handled at the same
\* time: no two requests with one payload both get verified = true.
C37_ReplayProtection ==
  \A r1, r2 \in Verifiers :
    (/\ r1 # r2
     /\ requests[r1].payload = requests[r2].payload
     /\ requests[r1].verified)
      => ~requests[r2].verified

\* ---------------------------------------- properties of the prerequisite checks
\* serve() answered this step's request from its prerequisite checks: a
\* redirect given before has_complete_path() was called
PrerequisiteRedirect ==
  Serving /\ response'.kind = "redirect" /\ ~response'.checked

\* C38: a POST answered with a prerequisite redirect leaves every page's
\* stored answers and the completion results as they were and invokes no
\* handler.
C38_PrerequisiteRedirectSavesNothing ==
  [][(PrerequisiteRedirect /\ response'.method = "POST")
       => /\ answers' = answers
          /\ completion_results' = completion_results
          /\ response'.sends = <<>>
          /\ ~response'.ran]_vars

\* a valid submission for a page without stored answers was answered with a
\* prerequisite redirect
C38_Witness ==
  /\ response.op = "serve"
  /\ response.method = "POST"
  /\ response.kind = "redirect"
  /\ ~response.checked
  /\ response.value \in flow.choices[response.page]
  /\ answers[response.page] = EmptyData

\* ------------------------------------------------- properties of construction
\* C39: for every flow the page-builder API can build,
\* get_earliest_incomplete_page() ends its walk by returning None or a page
\* of the flow: the walk never runs into the recursion limit.
C39_DeepCheckTerminates ==
  call.op = "deep_completion_check"
    => call.result \in {"running", None} \cup flow.pages

====
